---- MODULE Spec2Model ----
(***************************************************************************)
(* Model of isl_convex_hull.c: the convex hull of a union of polyhedra.    *)
(*                                                                         *)
(* A constraint row is a sequence of 1+d integers; entry 1 is the constant *)
(* term (c[0] in the source), entries 2..1+d are the coefficients of the   *)
(* variables.  A row r stands for r[1] + r[2]*x1 + ... >= 0 (or = 0).      *)
(* A basic set is a record [dim, eq, ineq, flags]; a set is a record       *)
(* [dim, p] with p the sequence of its basic sets (set->p[0..n-1]).  A     *)
(* matrix is the sequence of its rows.                                     *)
(*                                                                         *)
(* Every function of the source and of the library it calls is entered     *)
(* through the operator Call, which plays the part of the C call           *)
(* instruction: Call("f", <<a1, ..., an>>) is f(a1, ..., an).              *)
(***************************************************************************)
EXTENDS Integers, Sequences, FiniteSets, TLC

VARIABLES pc, set, row, out

vars == <<pc, set, row, out>>

RECURSIVE Call(_, _)

----------------------------------------------------------------------------
(* isl_int and isl_seq primitives *)

\* a sequence built by a function constructor, with its entries evaluated
\* once (TLC evaluates the constructor anew at every application)
Tup(s) == <<>> \o s

Abs(x) == IF x < 0 THEN -x ELSE x

isl_int_sgn(x) == IF x > 0 THEN 1 ELSE IF x < 0 THEN -1 ELSE 0

RECURSIVE Gcd(_, _)
Gcd(a, b) == IF b = 0 THEN Abs(a) ELSE Gcd(Abs(b), Abs(a) % Abs(b))

RECURSIVE SeqGcdFrom(_, _)
SeqGcdFrom(r, i) == IF i > Len(r) THEN 0 ELSE Gcd(r[i], SeqGcdFrom(r, i + 1))

isl_seq_gcd(r) == SeqGcdFrom(r, 1)

isl_seq_clr(n) == Tup([i \in 1..n |-> 0])

isl_seq_neg(r) == Tup([i \in 1..Len(r) |-> -r[i]])

isl_seq_scale(r, m) == Tup([i \in 1..Len(r) |-> m * r[i]])

isl_seq_combine(m1, r1, m2, r2) == Tup([i \in 1..Len(r1) |-> m1 * r1[i] + m2 * r2[i]])

\* position (0-based, as in the source) of the first non-zero entry, -1 if none
isl_seq_first_non_zero(r) ==
    IF \A i \in 1..Len(r) : r[i] = 0 THEN -1
    ELSE (CHOOSE i \in 1..Len(r) : r[i] # 0 /\ \A j \in 1..(i - 1) : r[j] = 0) - 1

DivideBy(r, g) == IF g <= 1 THEN r ELSE Tup([i \in 1..Len(r) |-> r[i] \div g])

isl_seq_normalize(r) == DivideBy(r, isl_seq_gcd(r))

\* the coefficient part of a row (c+1 in the source)
Coef(r) == SubSeq(r, 2, Len(r))

IsZeroSeq(r) == \A i \in 1..Len(r) : r[i] = 0

SeqToSet(s) == {s[i] : i \in 1..Len(s)}

Max(S) == CHOOSE x \in S : \A y \in S : y <= x
Min(S) == CHOOSE x \in S : \A y \in S : x <= y

\* the sequence s without its k-th entry
DropAt(s, k) == Tup([i \in 1..(Len(s) - 1) |-> IF i < k THEN s[i] ELSE s[i + 1]])

\* the entries of s at the increasing positions in I
RECURSIVE Pick(_, _, _)
Pick(s, I, i) ==
    IF i > Len(s) THEN <<>>
    ELSE (IF i \in I THEN <<s[i]>> ELSE <<>>) \o Pick(s, I, i + 1)

----------------------------------------------------------------------------
(* Exact rational linear programming (isl_solve_lp), by Fourier-Motzkin    *)
(* elimination on integer rows.  A system is a record [eq, ineq] of sets   *)
(* of rows of the same length; column k (k >= 2) is a variable.            *)

\* eliminate column k from row r with the help of equality e (e[k] # 0);
\* r is multiplied by a positive number, so an inequality keeps its sense
ElimByEq(r, e, k) ==
    IF r[k] = 0 THEN r
    ELSE isl_seq_normalize(isl_seq_combine(Abs(e[k]), r, -(isl_int_sgn(e[k]) * r[k]), e))

\* rows that say nothing
TrivialIneq(r) == IsZeroSeq(Coef(r)) /\ r[1] >= 0

\* among inequalities with the same coefficients only the tightest matters
Tightest(rows) ==
    {r \in rows : ~TrivialIneq(r) /\ \A q \in rows : Coef(q) = Coef(r) => q[1] >= r[1]}

FMByEq(sys, k, e) ==
    [eq   |-> {ElimByEq(r, e, k) : r \in sys.eq \ {e}} \ {isl_seq_clr(Len(e))},
     ineq |-> Tightest({ElimByEq(r, e, k) : r \in sys.ineq})]

FMByIneq(sys, k) ==
    [eq   |-> sys.eq,
     ineq |-> Tightest({r \in sys.ineq : r[k] = 0} \cup
                {isl_seq_normalize(isl_seq_combine(-n[k], p, p[k], n)) :
                     p \in {r \in sys.ineq : r[k] > 0}, n \in {r \in sys.ineq : r[k] < 0}})]

FMStep(sys, k) ==
    IF \E e \in sys.eq : e[k] # 0
    THEN FMByEq(sys, k, CHOOSE e \in sys.eq : e[k] # 0)
    ELSE FMByIneq(sys, k)

\* the number of rows an elimination of column k produces
FMCost(sys, k) ==
    IF \E e \in sys.eq : e[k] # 0 THEN 0
    ELSE Cardinality({r \in sys.ineq : r[k] > 0}) * Cardinality({r \in sys.ineq : r[k] < 0})

\* costs is a set of pairs <<column, cost>>
FMCheapest(costs) ==
    (CHOOSE p \in costs : \A q \in costs : p[2] < q[2] \/ (p[2] = q[2] /\ p[1] <= q[1]))[1]

FMPick(sys, cols) == FMCheapest({<<k, FMCost(sys, k)>> : k \in cols})

\* a system with a row that no point satisfies
FMInfeasible(sys) ==
    \/ \E r \in sys.ineq : IsZeroSeq(Coef(r)) /\ r[1] < 0
    \/ \E r \in sys.eq : IsZeroSeq(Coef(r)) /\ r[1] # 0

RECURSIVE FMEliminate(_, _)
FMEliminateCol(sys, cols, k) == FMEliminate(FMStep(sys, k), cols \ {k})

FMEliminate(sys, cols) ==
    IF cols = {} \/ FMInfeasible(sys) THEN sys
    ELSE FMEliminateCol(sys, cols, FMPick(sys, cols))

\* a / b < c / d for b, d > 0
RatLt(a, b, c, d) == a * d < c * b

\* the bounds on the last column t that are left in res, as pairs <<num, den>>
LpLower(res, t) ==
    {<<-r[1], r[t]>> : r \in {r \in res.ineq : r[t] > 0}} \cup
    {<<-isl_int_sgn(r[t]) * r[1], Abs(r[t])>> : r \in {r \in res.eq : r[t] # 0}}

LpUpper(res, t) ==
    {<<r[1], -r[t]>> : r \in {r \in res.ineq : r[t] < 0}} \cup
    {<<-isl_int_sgn(r[t]) * r[1], Abs(r[t])>> : r \in {r \in res.eq : r[t] # 0}}

LpReduced(m) ==
    [res |-> "ok", num |-> m[1] \div Gcd(m[1], m[2]), den |-> m[2] \div Gcd(m[1], m[2])]

LpAnswer(res, low, upp) ==
    IF FMInfeasible(res) \/ (\E l \in low, u \in upp : RatLt(u[1], u[2], l[1], l[2]))
    THEN [res |-> "empty", num |-> 0, den |-> 1]
    ELSE IF low = {} THEN [res |-> "unbounded", num |-> 0, den |-> 1]
    ELSE LpReduced(CHOOSE l \in low : \A q \in low : ~RatLt(l[1], l[2], q[1], q[2]))

LpResult(res, t) == LpAnswer(res, LpLower(res, t), LpUpper(res, t))

\* isl_solve_lp(bmap, 0, f, one, &num, &den): minimise f.x over the rational
\* points of bmap.  The objective value is carried in an extra last column t
\* with t - f.x = 0; after eliminating every variable the rows bound t alone.
isl_solve_lp(bmap, f) ==
    LpResult(FMEliminate([eq   |-> {r \o <<0>> : r \in SeqToSet(bmap.eq)} \cup
                                       {<<0>> \o isl_seq_neg(f) \o <<1>>},
                          ineq |-> {r \o <<0>> : r \in SeqToSet(bmap.ineq)}],
                         2..(Len(f) + 1)),
             Len(f) + 2)

----------------------------------------------------------------------------
(* Basic sets and the helpers of isl_map.c / isl_map_simplify.c the hull   *)
(* code calls                                                              *)

BasicSet(d, eqs, ineqs, fl) == [dim |-> d, eq |-> eqs, ineq |-> ineqs, flags |-> fl]

\* the sentinel every operation returns on failure
NULL == BasicSet(0, <<>>, <<>>, {"NULL"})

IsNull(b) == "NULL" \in b.flags

\* the value that stands for the dereference of a NULL pointer
NULL_DEREF == BasicSet(0, <<>>, <<>>, {"NULL", "DEREF"})

\* the sentinel for a set
NULL_set == [dim |-> -1, p |-> <<>>]

\* a row pointer or a matrix pointer that is NULL
NoRow == <<>>

ISL_F_ISSET(b, f) == f \in b.flags
ISL_F_SET(b, f) == [b EXCEPT !.flags = @ \cup {f}]
ISL_F_CLR(b, f) == [b EXCEPT !.flags = @ \ {f}]

\* isl_basic_map_set_to_empty: every constraint is dropped, the single
\* equality 1 = 0 is stored and the EMPTY flag is set
isl_basic_set_set_to_empty(b) ==
    [b EXCEPT !.eq = << <<1>> \o isl_seq_clr(b.dim) >>, !.ineq = <<>>,
              !.flags = @ \cup {"EMPTY"}]

isl_basic_set_empty(d) == isl_basic_set_set_to_empty(BasicSet(d, <<>>, <<>>, {}))

isl_basic_set_universe(d) == BasicSet(d, <<>>, <<>>, {})

\* isl_seq_elim(dst, src, pos): a positive multiple of dst plus a multiple of
\* src with entry pos (1-based here) cancelled
isl_seq_elim(dst, src, pos) ==
    IF dst[pos] = 0 THEN dst
    ELSE isl_seq_combine(Abs(src[pos]) \div Gcd(src[pos], dst[pos]), dst,
                         -(isl_int_sgn(src[pos]) * (dst[pos] \div Gcd(src[pos], dst[pos]))), src)

\* eliminate_var_using_equality: column pos is cancelled in every other
\* equality and in every inequality (which is then divided by its gcd)
eliminate_var_using_equality(b, pos, k) ==
    [b EXCEPT
       !.eq   = Tup([i \in 1..Len(b.eq) |-> IF i = k THEN b.eq[i] ELSE isl_seq_elim(b.eq[i], b.eq[k], pos)]),
       !.ineq = Tup([i \in 1..Len(b.ineq) |->
                   IF b.ineq[i][pos] = 0 THEN b.ineq[i]
                   ELSE isl_seq_normalize(isl_seq_elim(b.ineq[i], b.eq[k], pos))])]

SwapSeq(s, i, j) == [s EXCEPT ![i] = s[j], ![j] = s[i]]

\* equality k becomes the next pivot row, its pivot made positive
gauss_pivot(b, k, done, v) ==
    [b EXCEPT !.eq = [SwapSeq(b.eq, k, done + 1) EXCEPT
                         ![done + 1] = IF b.eq[k][1 + v] < 0 THEN isl_seq_neg(b.eq[k]) ELSE b.eq[k]]]

\* the loop of isl_basic_map_gauss: done equalities are in echelon form,
\* pivots are looked for from the last variable down
RECURSIVE gauss_loop(_, _, _)
gauss_step(b, done, v) ==
    gauss_loop(eliminate_var_using_equality(
                   gauss_pivot(b, Min({k \in (done + 1)..Len(b.eq) : b.eq[k][1 + v] # 0}), done, v),
                   1 + v, done + 1),
               done + 1, v - 1)

gauss_loop(b, done, last_var) ==
    IF done >= Len(b.eq) \/ \A v \in 1..last_var : \A k \in (done + 1)..Len(b.eq) : b.eq[k][1 + v] = 0
    THEN [b |-> b, done |-> done]
    ELSE gauss_step(b, done,
                    Max({v \in 1..last_var : \E k \in (done + 1)..Len(b.eq) : b.eq[k][1 + v] # 0}))

gauss_finish(g) ==
    IF g.done = Len(g.b.eq) THEN g.b
    ELSE IF \E k \in (g.done + 1)..Len(g.b.eq) : g.b.eq[k][1] # 0
         THEN isl_basic_set_set_to_empty(g.b)
         ELSE [g.b EXCEPT !.eq = SubSeq(@, 1, g.done)]

isl_basic_map_gauss(b) == gauss_finish(gauss_loop(b, 0, b.dim))

FloorDiv(a, g) == IF a >= 0 THEN a \div g ELSE -((-a + g - 1) \div g)

\* the smallest integer >= n/d (d > 0)
CeilDiv(n, d) == -FloorDiv(-n, d)

\* a constraint is divided by the gcd of its coefficients (an integer set;
\* the constant of an inequality is rounded down) or of the whole row (a
\* rational set)
NormRowBy(r, g) ==
    IF g <= 1 THEN r
    ELSE Tup([i \in 1..Len(r) |-> IF i = 1 THEN FloorDiv(r[1], g) ELSE r[i] \div g])

NormRow(b, r) ==
    NormRowBy(r, IF "RATIONAL" \in b.flags THEN isl_seq_gcd(r) ELSE isl_seq_gcd(Coef(r)))

\* isl_basic_map_normalize_constraints
isl_basic_map_normalize_constraints(b) ==
    IF (\E i \in 1..Len(b.eq) : IsZeroSeq(Coef(b.eq[i])) /\ b.eq[i][1] # 0) \/
       (\E i \in 1..Len(b.eq) : "RATIONAL" \notin b.flags /\ ~IsZeroSeq(Coef(b.eq[i])) /\
                                 b.eq[i][1] % isl_seq_gcd(Coef(b.eq[i])) # 0) \/
       (\E i \in 1..Len(b.ineq) : IsZeroSeq(Coef(b.ineq[i])) /\ b.ineq[i][1] < 0)
    THEN isl_basic_set_set_to_empty(b)
    ELSE [b EXCEPT
            !.eq   = Pick(Tup([i \in 1..Len(b.eq) |-> NormRow(b, b.eq[i])]),
                          {i \in 1..Len(b.eq) : ~IsZeroSeq(b.eq[i])}, 1),
            !.ineq = Pick(Tup([i \in 1..Len(b.ineq) |-> NormRow(b, b.ineq[i])]),
                          {i \in 1..Len(b.ineq) : ~IsZeroSeq(Coef(b.ineq[i]))}, 1)]

\* the inequalities that are the tightest (and first) of their direction
dup_keep(b) ==
    {i \in 1..Len(b.ineq) : \A j \in 1..Len(b.ineq) :
        (j # i /\ Coef(b.ineq[j]) = Coef(b.ineq[i])) =>
            (b.ineq[i][1] < b.ineq[j][1] \/ (b.ineq[i][1] = b.ineq[j][1] /\ i < j))}

dup_opp(b, i, j) == Coef(b.ineq[j]) = isl_seq_neg(Coef(b.ineq[i]))

dup_pairs(b, keep) ==
    {p \in keep \X keep : p[1] < p[2] /\ dup_opp(b, p[1], p[2]) /\
                          b.ineq[p[1]][1] + b.ineq[p[2]][1] = 0}

dup_first(P) == CHOOSE p \in P : \A q \in P : p[1] < q[1] \/ (p[1] = q[1] /\ p[2] <= q[2])

dup_to_eq(b, keep, p) ==
    [b EXCEPT !.eq = Append(@, b.ineq[p[1]]), !.ineq = Pick(b.ineq, keep \ {p[1], p[2]}, 1)]

dup_result(b, keep) ==
    IF \E i, j \in keep : dup_opp(b, i, j) /\ b.ineq[i][1] + b.ineq[j][1] < 0
    THEN isl_basic_set_set_to_empty(b)
    ELSE IF dup_pairs(b, keep) # {} THEN dup_to_eq(b, keep, dup_first(dup_pairs(b, keep)))
    ELSE [b EXCEPT !.ineq = Pick(b.ineq, keep, 1)]

\* remove_duplicate_constraints: of inequalities with equal coefficients the
\* tightest is kept; two opposite inequalities make the set empty (sum of
\* the constants negative) or an equality (sum zero)
remove_duplicate_constraints(b) == dup_result(b, dup_keep(b))

simplify_gauss(b) == IF "EMPTY" \in b.flags THEN b ELSE isl_basic_map_gauss(b)

simplify_dup(b) == IF "EMPTY" \in b.flags THEN b ELSE remove_duplicate_constraints(b)

simplify_pass(b) == simplify_dup(simplify_gauss(isl_basic_map_normalize_constraints(b)))

\* isl_basic_set_simplify: repeated until nothing changes
RECURSIVE isl_basic_set_simplify(_)
simplify_again(b, b1) == IF b1 = b THEN b ELSE isl_basic_set_simplify(b1)

isl_basic_set_simplify(b) ==
    IF IsNull(b) \/ "EMPTY" \in b.flags THEN b ELSE simplify_again(b, simplify_pass(b))

isl_set_remove_empty_parts(s) ==
    [s EXCEPT !.p = Pick(s.p, {i \in 1..Len(s.p) : "EMPTY" \notin s.p[i].flags}, 1)]

----------------------------------------------------------------------------
(* convex_hull_1d *)

\* seeding of lower and upper from the first basic set
hull1d_seed(p0) ==
    IF Len(p0.eq) > 0
    THEN IF p0.eq[1][2] > 0
         THEN [lower |-> p0.eq[1], upper |-> isl_seq_neg(p0.eq[1])]
         ELSE [lower |-> isl_seq_neg(p0.eq[1]), upper |-> p0.eq[1]]
    ELSE LET lows == {j \in 1..Len(p0.ineq) : p0.ineq[j][2] > 0}
             upps == {j \in 1..Len(p0.ineq) : ~(p0.ineq[j][2] > 0)}
         IN  [lower |-> IF lows = {} THEN NoRow ELSE p0.ineq[Max(lows)],
              upper |-> IF upps = {} THEN NoRow ELSE p0.ineq[Max(upps)]]

\* the mutant compares the upper bounds the wrong way round
hull1d_ineq_mutant(st, r) ==
    LET lo == IF st.lower # NoRow /\ r[2] > 0 /\ st.lower[1] * r[2] < st.lower[2] * r[1]
              THEN r ELSE st.lower
        up == IF st.upper # NoRow /\ r[2] < 0 /\ st.upper[1] * r[2] < st.upper[2] * r[1]
              THEN r ELSE st.upper
    IN  [lower |-> lo, upper |-> up,
         has_lower |-> st.has_lower \/ r[2] > 0, has_upper |-> st.has_upper \/ r[2] < 0]

\* one inequality of a basic set against the running bounds
hull1d_ineq(st, r) ==
    LET lo == IF st.lower # NoRow /\ r[2] > 0 /\ st.lower[1] * r[2] < st.lower[2] * r[1]
              THEN r ELSE st.lower
        up == IF st.upper # NoRow /\ r[2] < 0 /\ st.upper[1] * r[2] > st.upper[2] * r[1]
              THEN r ELSE st.upper
    IN  [lower |-> lo, upper |-> up,
         has_lower |-> st.has_lower \/ r[2] > 0, has_upper |-> st.has_upper \/ r[2] < 0]

\* one equality of a basic set against the running bounds
hull1d_eq(st, e) ==
    LET la == IF st.lower = NoRow THEN 0 ELSE st.lower[1] * e[2]
        lb == IF st.lower = NoRow THEN 0 ELSE st.lower[2] * e[1]
        lo == IF st.lower = NoRow THEN NoRow
              ELSE IF la > lb /\ e[2] < 0 THEN isl_seq_neg(e)
              ELSE IF la < lb /\ e[2] > 0 THEN e
              ELSE st.lower
        ua == IF st.upper = NoRow THEN 0 ELSE st.upper[1] * e[2]
        ub == IF st.upper = NoRow THEN 0 ELSE st.upper[2] * e[1]
        up == IF st.upper = NoRow THEN NoRow
              ELSE IF ua > ub /\ e[2] < 0 THEN e
              ELSE IF ua < ub /\ e[2] > 0 THEN isl_seq_neg(e)
              ELSE st.upper
    IN  [lower |-> lo, upper |-> up, has_lower |-> TRUE, has_upper |-> TRUE]

RECURSIVE hull1d_eqs(_, _, _)
hull1d_eqs(st, b, j) ==
    IF j > Len(b.eq) THEN st ELSE hull1d_eqs(hull1d_eq(st, b.eq[j]), b, j + 1)

RECURSIVE hull1d_ineqs(_, _, _)
hull1d_ineqs(st, b, j) ==
    IF j > Len(b.ineq) THEN st ELSE hull1d_ineqs(hull1d_ineq(st, b.ineq[j]), b, j + 1)

hull1d_erase(st) ==
    [lower |-> IF st.has_lower THEN st.lower ELSE NoRow,
     upper |-> IF st.has_upper THEN st.upper ELSE NoRow]

\* the body of the loop over the basic sets
hull1d_member(st, b) ==
    hull1d_erase(hull1d_ineqs(hull1d_eqs([lower |-> st.lower, upper |-> st.upper,
                                         has_lower |-> FALSE, has_upper |-> FALSE], b, 1), b, 1))

RECURSIVE hull1d_loop(_, _, _)
hull1d_loop(st, p, i) ==
    IF i > Len(p) THEN st ELSE hull1d_loop(hull1d_member(st, p[i]), p, i + 1)

hull1d_result(st) ==
    BasicSet(1, <<>>,
             (IF st.lower = NoRow THEN <<>> ELSE <<st.lower>>) \o
             (IF st.upper = NoRow THEN <<>> ELSE <<st.upper>>),
             {"RATIONAL"})

hull1d_of(s) ==
    IF Len(s.p) = 0 THEN NULL
    ELSE IF Len(s.p[1].eq) > 1 THEN NULL
    ELSE hull1d_result(hull1d_loop(hull1d_seed(s.p[1]), s.p, 1))

convex_hull_1d(s) ==
    hull1d_of(isl_set_remove_empty_parts(
                  [s EXCEPT !.p = Tup([i \in 1..Len(s.p) |-> Call("isl_basic_set_simplify", <<s.p[i]>>)])]))

----------------------------------------------------------------------------
(* isl_basic_map_constraint_is_redundant and isl_basic_map_convex_hull *)

\* some variable of c has a sign no inequality of bmap has
redundant_filter(bmap, c) ==
    \E i \in 1..bmap.dim :
        /\ c[1 + i] # 0
        /\ \A j \in 1..Len(bmap.ineq) : isl_int_sgn(c[1 + i]) # isl_int_sgn(bmap.ineq[j][1 + i])

\* *opt_n after the addition of c[0]; without opt_d the LP stores the
\* rounded-up optimum
redundant_opt(c, has_opt_d, lp) ==
    IF has_opt_d THEN lp.num + lp.den * c[1] ELSE CeilDiv(lp.num, lp.den) + c[1]

redundant_lp(bmap, c, has_opt_d, lp) ==
    IF lp.res = "unbounded" THEN [ret |-> 0, bmap |-> bmap]
    ELSE IF lp.res = "empty" THEN [ret |-> 0, bmap |-> isl_basic_set_set_to_empty(bmap)]
    ELSE [ret |-> IF redundant_opt(c, has_opt_d, lp) < 0 THEN 0 ELSE 1, bmap |-> bmap]

\* result [ret, bmap]; has_opt_d tells whether the caller passes opt_d
isl_basic_map_constraint_is_redundant(bmap, c, has_opt_d) ==
    IF redundant_filter(bmap, c) THEN [ret |-> 0, bmap |-> bmap]
    ELSE redundant_lp(bmap, c, has_opt_d, Call("isl_solve_lp", <<bmap, Coef(c)>>))

LpNonNeg(lp, c0) == lp.res = "ok" /\ lp.num + lp.den * c0 >= 0

\* the minimum of the affine form r over b is >= 0, b being non-empty
ValidOn(b, r) == LpNonNeg(Call("isl_solve_lp", <<b, Coef(r)>>), r[1])

IsEmptyLp(b) == Call("isl_solve_lp", <<b, isl_seq_clr(b.dim)>>).res = "empty"

\* r = 0 on all of b, and the equalities of b alone do not say so
tab_is_new_equality(b, r) ==
    /\ ValidOn(b, isl_seq_neg(r))
    /\ ~(ValidOn([b EXCEPT !.ineq = <<>>], r) /\ ValidOn([b EXCEPT !.ineq = <<>>], isl_seq_neg(r)))

\* isl_tab_detect_equalities: an inequality that holds with equality on all of
\* b becomes an equality, unless the equalities already say so
RECURSIVE tab_detect_equalities(_, _)
tab_detect_equalities(b, i) ==
    IF i < 1 THEN b
    ELSE IF ~ValidOn(b, isl_seq_neg(b.ineq[i])) THEN tab_detect_equalities(b, i - 1)
    ELSE IF tab_is_new_equality(b, b.ineq[i])
         THEN tab_detect_equalities([b EXCEPT !.ineq = DropAt(b.ineq, i),
                                              !.eq = Append(@, b.ineq[i])], i - 1)
         ELSE tab_detect_equalities([b EXCEPT !.ineq = DropAt(b.ineq, i)], i - 1)

\* isl_tab_detect_redundant: an inequality implied by the other constraints
\* still present is dropped, one at a time
RECURSIVE tab_detect_redundant(_, _)
tab_detect_redundant(b, i) ==
    IF i < 1 THEN b
    ELSE IF ValidOn([b EXCEPT !.ineq = DropAt(b.ineq, i)], b.ineq[i])
         THEN tab_detect_redundant([b EXCEPT !.ineq = DropAt(b.ineq, i)], i - 1)
         ELSE tab_detect_redundant(b, i - 1)

tab_redundant_all(b) == tab_detect_redundant(b, Len(b.ineq))

\* isl_tab_from_basic_map ... isl_basic_map_update_from_tab
isl_basic_map_update_from_tab(b) ==
    IF IsEmptyLp(b) THEN isl_basic_set_set_to_empty(b)
    ELSE tab_redundant_all(tab_detect_equalities(b, Len(b.ineq)))

convex_hull_gaussed(b) ==
    IF ISL_F_ISSET(b, "EMPTY") THEN b
    ELSE IF ISL_F_ISSET(b, "NO_REDUNDANT") THEN b
    ELSE IF Len(b.ineq) <= 1 THEN b
    ELSE ISL_F_SET(ISL_F_SET(isl_basic_map_update_from_tab(b), "NO_IMPLICIT"), "NO_REDUNDANT")

isl_basic_map_convex_hull(bmap) ==
    IF IsNull(bmap) THEN NULL ELSE convex_hull_gaussed(Call("isl_basic_map_gauss", <<bmap>>))

----------------------------------------------------------------------------
(* Matrices (isl_mat.c) *)

RECURSIVE DotFrom(_, _, _)
DotFrom(a, b, i) == IF i > Len(a) THEN 0 ELSE a[i] * b[i] + DotFrom(a, b, i + 1)

Column(M, j) == Tup([i \in 1..Len(M) |-> M[i][j]])

\* the row vector r times the matrix M
RowTimes(r, M) == IF Len(M) = 0 THEN <<>> ELSE Tup([j \in 1..Len(M[1]) |-> DotFrom(r, Column(M, j), 1)])

isl_mat_product(A, B) == Tup([i \in 1..Len(A) |-> RowTimes(A[i], B)])

\* columns first .. first+n-1 (counted from 0) removed
isl_mat_drop_cols(M, first, n) ==
    Tup([i \in 1..Len(M) |-> SubSeq(M[i], 1, first) \o SubSeq(M[i], first + n + 1, Len(M[i]))])

isl_mat_drop_rows(M, first, n) == SubSeq(M, 1, first) \o SubSeq(M, first + n + 1, Len(M))

UnitRow(n, j) == Tup([i \in 1..n |-> IF i = j THEN 1 ELSE 0])

Minor(M, i, j) == Tup([a \in 1..(Len(M) - 1) |-> DropAt(M[IF a < i THEN a ELSE a + 1], j)])

RECURSIVE Det(_)
RECURSIVE DetFrom(_, _)
DetFrom(M, j) ==
    IF j > Len(M) THEN 0
    ELSE (IF M[1][j] = 0 THEN 0
          ELSE (IF j % 2 = 1 THEN 1 ELSE -1) * M[1][j] * Det(Minor(M, 1, j))) + DetFrom(M, j + 1)

Det(M) == IF Len(M) = 0 THEN 1 ELSE IF Len(M) = 1 THEN M[1][1] ELSE DetFrom(M, 1)

\* sgn(det M) times the adjugate of the square matrix M: M . result = |det M| . I
SignedAdjugate(M, s) ==
    Tup([i \in 1..Len(M) |-> Tup([j \in 1..Len(M) |->
        s * (IF (i + j) % 2 = 0 THEN 1 ELSE -1) * Det(Minor(M, j, i))])])

\* M followed by the unit rows of the columns in J
Completed(M, J, n) == M \o Tup([i \in 1..Cardinality(J) |->
                               UnitRow(n, CHOOSE j \in J : Cardinality({h \in J : h < j}) = i - 1)])

Completions(M, n) ==
    {J \in SUBSET (1..n) : Cardinality(J) = n - Len(M) /\ Det(Completed(M, J, n)) # 0}

InverseOf(N) == SignedAdjugate(N, isl_int_sgn(Det(N)))

\* isl_mat_right_inverse: a square matrix U with M . U = [ a.I | 0 ] for a
\* positive integer a; NoRow when M has no right inverse
isl_mat_right_inverse(M) ==
    IF M = NoRow THEN NoRow
    ELSE IF Len(M) > Len(M[1]) \/ Completions(M, Len(M[1])) = {} THEN NoRow
    ELSE InverseOf(Completed(M, CHOOSE J \in Completions(M, Len(M[1])) : TRUE, Len(M[1])))

----------------------------------------------------------------------------
(* Transformations of sets (isl_mat.c, isl_map.c) *)

\* isl_basic_set_preimage: every constraint row r becomes r . M
isl_basic_set_preimage(b, M) ==
    IF IsNull(b) THEN b
    ELSE IF M = NoRow THEN NULL
    ELSE IF ISL_F_ISSET(b, "EMPTY") THEN isl_basic_set_set_to_empty([b EXCEPT !.dim = Len(M[1]) - 1])
    ELSE Call("isl_basic_set_simplify",
              <<[dim   |-> Len(M[1]) - 1,
                 eq    |-> Tup([i \in 1..Len(b.eq) |-> RowTimes(b.eq[i], M)]),
                 ineq  |-> Tup([i \in 1..Len(b.ineq) |-> RowTimes(b.ineq[i], M)]),
                 flags |-> b.flags \ {"NO_IMPLICIT", "NO_REDUNDANT"}]>>)

isl_set_preimage(s, M) ==
    IF s = NULL_set \/ M = NoRow THEN NULL_set
    ELSE [dim |-> Len(M[1]) - 1,
          p   |-> Tup([i \in 1..Len(s.p) |-> Call("isl_basic_set_preimage", <<s.p[i], M>>)])]

\* isl_basic_set_intersect
isl_basic_set_intersect(b1, b2) ==
    IF IsNull(b1) \/ IsNull(b2) THEN NULL
    ELSE IF ISL_F_ISSET(b1, "EMPTY") THEN b1
    ELSE Call("isl_basic_set_simplify",
              <<[b1 EXCEPT !.eq = @ \o b2.eq, !.ineq = @ \o b2.ineq,
                           !.flags = @ \ {"NO_IMPLICIT", "NO_REDUNDANT"}]>>)

RECURSIVE SetToSeq(_)
SetToSeq(S) == IF S = {} THEN <<>> ELSE <<CHOOSE x \in S : TRUE>> \o SetToSeq(S \ {CHOOSE x \in S : TRUE})

\* isl_basic_set_remove_dims: variables first .. first+n-1 (counted from 0)
\* are eliminated by Fourier-Motzkin and their columns dropped
remove_dims_result(b, sys, first, n) ==
    Call("isl_basic_set_simplify",
         <<[dim   |-> b.dim - n,
            eq    |-> isl_mat_drop_cols(SetToSeq(sys.eq), 1 + first, n),
            ineq  |-> isl_mat_drop_cols(SetToSeq(sys.ineq), 1 + first, n),
            flags |-> b.flags \ {"NO_IMPLICIT", "NO_REDUNDANT"}]>>)

isl_basic_set_remove_dims(b, first, n) ==
    IF IsNull(b) THEN NULL
    ELSE IF ISL_F_ISSET(b, "EMPTY") THEN isl_basic_set_set_to_empty([b EXCEPT !.dim = b.dim - n])
    ELSE remove_dims_result(b, FMEliminate([eq |-> SeqToSet(b.eq), ineq |-> SeqToSet(b.ineq)],
                                           (2 + first)..(1 + first + n)),
                            first, n)

\* isl_basic_set_set_rational
isl_basic_set_set_rational(b) ==
    IF IsNull(b) THEN NULL
    ELSE IF ISL_F_ISSET(b, "RATIONAL") THEN b
    ELSE ISL_F_SET(b, "RATIONAL")

isl_set_set_rational(s) ==
    IF s = NULL_set THEN NULL_set
    ELSE [s EXCEPT !.p = Tup([i \in 1..Len(s.p) |-> isl_basic_set_set_rational(s.p[i])])]

isl_basic_set_add_equality(b, c) ==
    IF ISL_F_ISSET(b, "EMPTY") THEN b ELSE [b EXCEPT !.eq = Append(@, c)]

isl_set_add_equality(s, c) ==
    IF s = NULL_set THEN NULL_set
    ELSE [s EXCEPT !.p = Tup([i \in 1..Len(s.p) |-> isl_basic_set_add_equality(s.p[i], c)])]

\* the members of s that differ from every earlier member
DistinctParts(p) == Pick(p, {i \in 1..Len(p) : \A j \in 1..(i - 1) : p[j] # p[i]}, 1)

\* isl_set_normalize: every member loses its redundant constraints, empty
\* members and repeated members are dropped
isl_set_normalize(s) ==
    IF s = NULL_set THEN NULL_set
    ELSE [s EXCEPT !.p = DistinctParts(isl_set_remove_empty_parts(
             [s EXCEPT !.p = Tup([i \in 1..Len(s.p) |->
                                 Call("isl_basic_map_convex_hull", <<s.p[i]>>)])]).p)]

\* the recession cone of b: its constraints without their constants
RecessionCone(b) ==
    [b EXCEPT !.eq   = Tup([i \in 1..Len(b.eq) |-> [b.eq[i] EXCEPT ![1] = 0]]),
              !.ineq = Tup([i \in 1..Len(b.ineq) |-> [b.ineq[i] EXCEPT ![1] = 0]]),
              !.flags = @ \ {"EMPTY"}]

\* isl_tab_cone_is_bounded: no variable can move away from 0 inside the cone
isl_tab_cone_is_bounded(cone) ==
    \A j \in 1..cone.dim : \A s \in {-1, 1} :
        Call("isl_solve_lp", <<cone, isl_seq_scale(UnitRow(cone.dim, j), s)>>).res = "ok"

isl_basic_set_is_bounded(bset) == IF isl_tab_cone_is_bounded(RecessionCone(bset)) THEN 1 ELSE 0

RECURSIVE is_bounded_from(_, _)
is_bounded_from(s, i) ==
    IF i > Len(s.p) THEN 1
    ELSE IF isl_basic_set_is_bounded(s.p[i]) = 0 THEN 0
    ELSE is_bounded_from(s, i + 1)

isl_set_is_bounded(s) == is_bounded_from(s, 1)

\* isl_basic_set_is_empty
isl_basic_set_is_empty(b) == ISL_F_ISSET(b, "EMPTY") \/ IsEmptyLp(b)

isl_set_is_empty(s) == \A i \in 1..Len(s.p) : isl_basic_set_is_empty(s.p[i])

----------------------------------------------------------------------------
(* Affine hulls (isl_affine_hull.c) and equality removal (isl_equalities.c) *)

Lcm(a, b) == (a * b) \div Gcd(a, b)

RECURSIVE LcmOf(_)
LcmOf(S) == IF S = {} THEN 1 ELSE Lcm(CHOOSE x \in S : TRUE, LcmOf(S \ {CHOOSE x \in S : TRUE}))

\* the last non-zero position of a row in echelon form: its pivot
PivotPos(e) == Max({i \in 1..Len(e) : e[i] # 0})

\* E is in reduced echelon form over columns 1..n; the kernel vector of the
\* free column j, scaled by D to be integral
KernelVec(E, n, j, D) ==
    isl_seq_normalize(
        Tup([c \in 1..n |->
            IF c = j THEN D
            ELSE IF \E i \in 1..Len(E) : PivotPos(E[i]) = c
                 THEN -(E[CHOOSE i \in 1..Len(E) : PivotPos(E[i]) = c][j] *
                        (D \div E[CHOOSE i \in 1..Len(E) : PivotPos(E[i]) = c][c]))
                 ELSE 0]))

KernelOfEchelon(E, n) ==
    Tup([m \in 1..(n - Len(E)) |->
        KernelVec(E, n,
                  CHOOSE j \in 1..n : (\A i \in 1..Len(E) : PivotPos(E[i]) # j) /\
                      Cardinality({h \in 1..(j - 1) : \A i \in 1..Len(E) : PivotPos(E[i]) # h}) = m - 1,
                  LcmOf({E[i][PivotPos(E[i])] : i \in 1..Len(E)}))])

KernelOfGauss(g, n) == KernelOfEchelon(Tup([i \in 1..Len(g.eq) |-> Coef(g.eq[i])]), n)

\* a basis of {v : M v = 0} for a matrix M with n columns; the rows of M get
\* a zero constant in front so that isl_basic_map_gauss sees n variables
Kernel(M, n) ==
    KernelOfGauss(Call("isl_basic_map_gauss",
                       <<BasicSet(n, Tup([k \in 1..Len(M) |-> <<0>> \o M[k]]), <<>>, {})>>), n)

\* isl_basic_set_affine_hull: the equalities that hold on all of b
isl_basic_set_affine_hull(b) ==
    IF ISL_F_ISSET(b, "EMPTY") THEN b
    ELSE IF IsEmptyLp(b) THEN isl_basic_set_set_to_empty(b)
    ELSE Call("isl_basic_set_simplify",
              <<[tab_detect_equalities(b, Len(b.ineq)) EXCEPT !.ineq = <<>>,
                     !.flags = @ \ {"NO_IMPLICIT", "NO_REDUNDANT"}]>>)

\* the affine hull of the union of two affine spaces: the rows orthogonal to
\* the homogeneous points of both
affine_hull_pair(b1, b2) ==
    IF ISL_F_ISSET(b1, "EMPTY") THEN b2
    ELSE IF ISL_F_ISSET(b2, "EMPTY") THEN b1
    ELSE Call("isl_basic_set_simplify",
              <<[b1 EXCEPT !.eq = Kernel(Kernel(b1.eq, 1 + b1.dim) \o Kernel(b2.eq, 1 + b1.dim),
                                         1 + b1.dim)]>>)

RECURSIVE affine_hull_from(_, _, _)
affine_hull_from(h, s, i) ==
    IF i > Len(s.p) THEN h
    ELSE affine_hull_from(affine_hull_pair(h, isl_basic_set_affine_hull(s.p[i])), s, i + 1)

isl_set_affine_hull(s) ==
    IF s = NULL_set THEN NULL
    ELSE IF Len(s.p) = 0 THEN isl_basic_set_empty(s.dim)
    ELSE affine_hull_from(isl_basic_set_affine_hull(s.p[1]), s, 2)

\* the variables that are not the pivot of an equality of the (gaussed) b
FreeVars(b) == {v \in 1..b.dim : \A i \in 1..Len(b.eq) : PivotPos(b.eq[i]) # 1 + v}

NthOf(S, m) == CHOOSE x \in S : Cardinality({y \in S : y < x}) = m - 1

PivotLcm(b) == LcmOf({b.eq[i][PivotPos(b.eq[i])] : i \in 1..Len(b.eq)})

\* the row of T for variable v: D times v, written in the free variables
CompressRow(b, v, F, D) ==
    IF v \in F
    THEN Tup([c \in 1..(1 + Cardinality(F)) |-> IF c > 1 /\ NthOf(F, c - 1) = v THEN D ELSE 0])
    ELSE Tup([c \in 1..(1 + Cardinality(F)) |->
            -(b.eq[CHOOSE i \in 1..Len(b.eq) : PivotPos(b.eq[i]) = 1 + v][IF c = 1 THEN 1 ELSE 1 + NthOf(F, c - 1)] *
              (D \div b.eq[CHOOSE i \in 1..Len(b.eq) : PivotPos(b.eq[i]) = 1 + v][1 + v]))])

Compression(b, F, D) ==
    [T  |-> Tup([r \in 1..(1 + b.dim) |->
                IF r = 1 THEN Tup([c \in 1..(1 + Cardinality(F)) |-> IF c = 1 THEN D ELSE 0])
                ELSE CompressRow(b, r - 1, F, D)]),
     T2 |-> Tup([r \in 1..(1 + Cardinality(F)) |->
                IF r = 1 THEN UnitRow(1 + b.dim, 1) ELSE UnitRow(1 + b.dim, 1 + NthOf(F, r - 1))])]

remove_equalities_gaussed(b) ==
    IF ISL_F_ISSET(b, "EMPTY") THEN [T |-> NoRow, T2 |-> NoRow]
    ELSE Compression(b, FreeVars(b), PivotLcm(b))

\* isl_basic_set_remove_equalities(bset, &T, &T2): (1, x) = T (1, x') maps the
\* reduced space onto the solutions of the equalities, (1, x') = T2 (1, x)
\* maps back
isl_basic_set_remove_equalities(b) ==
    remove_equalities_gaussed(Call("isl_basic_map_gauss", <<b>>))

----------------------------------------------------------------------------
(* uset_is_bound, is_independent_bound, independent_bounds *)

\* the mutant keeps the largest optimum
bound_store_mutant(c, opt, first) == IF first \/ opt > c[1] THEN [c EXCEPT ![1] = opt] ELSE c

\* lines 150-151: the first optimum, or a smaller one, is stored in c[0]
bound_store(c, opt, first) == IF first \/ opt < c[1] THEN [c EXCEPT ![1] = opt] ELSE c

\* lines 148-152
bound_update(c, lp, first) ==
    bound_store(IF lp.den # 1 THEN isl_seq_scale(c, lp.den) ELSE c, lp.num, first)

\* the body of the loop after the LP call on member j; the result is
\* [ret, set, c]: the members found empty are marked in set, c is the row
\* the caller passed by reference
RECURSIVE bound_loop(_, _, _, _)
bound_member(s, c, first, j, lp) ==
    IF lp.res = "unbounded" THEN [ret |-> 0, set |-> s, c |-> [c EXCEPT ![1] = -c[1]]]
    ELSE IF lp.res = "empty"
         THEN bound_loop([s EXCEPT !.p[j] = isl_basic_set_set_to_empty(s.p[j])], c, first, j + 1)
         ELSE bound_loop(s, bound_update(c, lp, first), FALSE, j + 1)

bound_loop(s, c, first, j) ==
    IF j > Len(s.p) THEN [ret |-> 1, set |-> s, c |-> [c EXCEPT ![1] = -c[1]]]
    ELSE IF ISL_F_ISSET(s.p[j], "EMPTY") THEN bound_loop(s, c, first, j + 1)
    ELSE bound_member(s, c, first, j, Call("isl_solve_lp", <<s.p[j], Coef(c)>>))

uset_is_bound(s, c) == bound_loop(s, c, TRUE, 1)

\* lines 183-195: the coefficients r of the candidate are reduced by the
\* rows found so far; the result is the insertion position i and the reduced
\* coefficients, NoRow if they vanished
RECURSIVE indep_elim(_, _, _)
indep_elim_next(dirs, r, i) ==
    IF isl_seq_first_non_zero(r) < 0 THEN [i |-> i, r |-> NoRow] ELSE indep_elim(dirs, r, i + 1)

indep_elim(dirs, r, i) ==
    IF i > Len(dirs) THEN [i |-> i, r |-> r]
    ELSE IF isl_seq_first_non_zero(Coef(dirs[i])) < isl_seq_first_non_zero(r)
         THEN indep_elim(dirs, r, i + 1)
    ELSE IF isl_seq_first_non_zero(Coef(dirs[i])) > isl_seq_first_non_zero(r)
         THEN [i |-> i, r |-> r]
    ELSE indep_elim_next(dirs, isl_seq_elim(r, Coef(dirs[i]), 1 + isl_seq_first_non_zero(r)), i)

\* lines 199-208: a bound is inserted in dirs at position i
indep_bound(b, el, dirs) ==
    IF b.ret # 1 THEN [ret |-> b.ret, dirs |-> dirs, set |-> b.set, c0 |-> b.c[1]]
    ELSE [ret |-> 1, set |-> b.set, c0 |-> 0,
          dirs |-> SubSeq(dirs, 1, el.i - 1) \o <<b.c>> \o SubSeq(dirs, el.i, Len(dirs))]

indep_checked(s, el, dirs, c0) ==
    IF el.r = NoRow THEN [ret |-> 0, dirs |-> dirs, set |-> s, c0 |-> c0]
    ELSE indep_bound(Call("uset_is_bound", <<s, <<c0>> \o el.r>>), el, dirs)

\* dirs holds the n rows found so far; c0 is the constant left in the unused
\* row dirs->row[n], which line 178 does not overwrite
is_independent_bound(s, c, dirs, c0) ==
    IF Len(dirs) = 0 THEN indep_checked(s, [i |-> 1, r |-> Coef(c)], dirs, c0)
    ELSE IF isl_seq_first_non_zero(Coef(c)) < 0 THEN [ret |-> 0, dirs |-> dirs, set |-> s, c0 |-> c0]
    ELSE indep_checked(s, indep_elim(dirs, Coef(c), 1), dirs, c0)

\* lines 227-247; phase tells whether the equalities or the inequalities of
\* member i are being visited; set->p[i] is read again at every step
RECURSIVE ib_loop(_, _, _, _, _, _)
ib_step(r, i, phase, j) == ib_loop(r.set, r.dirs, r.c0, i, phase, j + 1)

ib_loop(s, dirs, c0, i, phase, j) ==
    IF Len(dirs) >= s.dim \/ i > Len(s.p) THEN [dirs |-> dirs, set |-> s]
    ELSE IF phase = "eq"
         THEN IF j > Len(s.p[i].eq) THEN ib_loop(s, dirs, c0, i, "ineq", 1)
              ELSE ib_step(Call("is_independent_bound", <<s, s.p[i].eq[j], dirs, c0>>), i, phase, j)
         ELSE IF j > Len(s.p[i].ineq) THEN ib_loop(s, dirs, c0, i + 1, "eq", 1)
              ELSE ib_step(Call("is_independent_bound", <<s, s.p[i].ineq[j], dirs, c0>>), i, phase, j)

\* result [dirs, set]
independent_bounds(s) == ib_loop(s, <<>>, 0, 1, "eq", 1)

----------------------------------------------------------------------------
(* wrap_constraints, wrap_facet *)

RECURSIVE Concat(_)
Concat(ss) == IF Len(ss) = 0 THEN <<>> ELSE Head(ss) \o Concat(Tail(ss))

\* row r of member i (counted from 0) in the space of n blocks of dim columns
Embed(r, i, n, dim) == isl_seq_clr(1 + dim * i) \o r \o isl_seq_clr(dim * (n - i - 1))

\* lines 374-380: sum_i x_{i,1} = 1
wrap_eq0(n, dim) == Tup([k \in 1..(1 + dim * n) |-> IF k = 1 THEN -1 ELSE IF (k - 2) % dim = 1 THEN 1 ELSE 0])

wrap_constraints(s) ==
    IF s = NULL_set THEN NULL
    ELSE BasicSet((1 + s.dim) * Len(s.p),
                  <<wrap_eq0(Len(s.p), 1 + s.dim)>> \o
                  Concat(Tup([i \in 1..Len(s.p) |->
                             Tup([j \in 1..Len(s.p[i].eq) |-> Embed(s.p[i].eq[j], i - 1, Len(s.p), 1 + s.dim)])])),
                  Concat(Tup([i \in 1..Len(s.p) |->
                             <<Embed(UnitRow(1 + s.dim, 1), i - 1, Len(s.p), 1 + s.dim)>> \o
                             Tup([j \in 1..Len(s.p[i].ineq) |-> Embed(s.p[i].ineq[j], i - 1, Len(s.p), 1 + s.dim)])])),
                  {})

\* the mutant minimizes sum_i x_{i,1}
wrap_obj_mutant(n, dim) == Tup([k \in 1..(dim * n) |-> IF (k - 1) % dim = 1 THEN 1 ELSE 0])

\* lines 490-494: sum_i x_{i,2}
wrap_obj(n, dim) == Tup([k \in 1..(dim * n) |-> IF (k - 1) % dim = 2 THEN 1 ELSE 0])

wrap_combine_mutant(facet, ridge, lp) ==
    IF lp.res = "ok" THEN isl_seq_combine(lp.num, facet, lp.den, ridge)
    ELSE IF lp.res = "unbounded" THEN facet
    ELSE NoRow

\* lines 499-510
wrap_combine(facet, ridge, lp) ==
    IF lp.res = "ok" THEN isl_seq_combine(-lp.num, facet, lp.den, ridge)
    ELSE IF lp.res = "unbounded" THEN facet
    ELSE NoRow

\* the mutant takes no reference of its own
wrap_own_mutant(ref) == ref

\* line 471: isl_set_copy adds a reference to the caller's set
wrap_own(ref) == ref + 1

\* line 483: isl_set_preimage writes into the set it is given only if that
\* holds the single reference to it; the result is the set the caller is
\* left with
wrap_caller_set(s, T, ref) == IF ref > 1 THEN s ELSE Call("isl_set_preimage", <<s, T>>)

\* lines 495-496
wrap_solve(s) ==
    IF s = NULL_set THEN [res |-> "error", num |-> 0, den |-> 1]
    ELSE Call("isl_solve_lp", <<wrap_constraints(s), wrap_obj(Len(s.p), 1 + s.dim)>>)

\* lines 473-483
wrap_T(s, facet, ridge) == isl_mat_right_inverse(<<UnitRow(1 + s.dim, 1), facet, ridge>>)

\* the outcome of the LP, the row returned (NoRow for NULL), the rows facet
\* and ridge and the caller's set after the call
wrap_result(s, facet, ridge, T, lp) ==
    [res |-> lp.res, ret |-> wrap_combine(facet, ridge, lp),
     facet |-> IF lp.res = "ok" THEN wrap_combine(facet, ridge, lp) ELSE facet,
     ridge |-> ridge, set |-> wrap_caller_set(s, T, wrap_own(1))]

wrap_call_T(s, facet, ridge, T) ==
    wrap_result(s, facet, ridge, T, wrap_solve(Call("isl_set_preimage", <<s, T>>)))

wrap_call(s, facet, ridge) == wrap_call_T(s, facet, ridge, wrap_T(s, facet, ridge))

\* the new value of facet, NoRow for NULL
wrap_facet(s, facet, ridge) == wrap_call(s, facet, ridge).ret

----------------------------------------------------------------------------
(* initial_facet_constraint *)

\* lines 569-573
RECURSIVE ifc_strip(_)
ifc_strip(bounds) ==
    IF bounds = NoRow THEN NoRow
    ELSE IF IsZeroSeq(bounds[Len(bounds)])
         THEN IF Len(bounds) - 1 > 1 THEN ifc_strip(SubSeq(bounds, 1, Len(bounds) - 1)) ELSE NoRow
         ELSE bounds

\* lines 561-568
ifc_project(bounds, U, Q, n_eq, dim) ==
    IF U = NoRow \/ Q = NoRow THEN NoRow
    ELSE isl_mat_product(
             isl_mat_product(bounds, isl_mat_drop_cols(isl_mat_drop_cols(U, 1 + n_eq, dim - n_eq), 0, 1)),
             isl_mat_drop_rows(isl_mat_drop_rows(Q, 1 + n_eq, dim - n_eq), 0, 1))

\* the mutant leaves the bounds as they are
ifc_inverse_mutant(bounds, U, n_eq, dim) == bounds

\* lines 554-555
ifc_inverse(bounds, U, n_eq, dim) == ifc_project(bounds, U, isl_mat_right_inverse(U), n_eq, dim)

RECURSIVE ifc_loop(_, _)
ifc_wrapped(s, bounds, w) ==
    IF w = NoRow THEN NoRow ELSE ifc_loop(s, <<w>> \o SubSeq(bounds, 2, Len(bounds) - 1))

ifc_wrap(s, bounds) ==
    IF bounds = NoRow THEN NoRow
    ELSE ifc_wrapped(s, bounds, Call("wrap_facet", <<s, bounds[1], bounds[Len(bounds)]>>))

ifc_face(s, bounds, face) ==
    IF IsNull(face) THEN NoRow
    ELSE IF Len(face.eq) = 1 THEN bounds
    ELSE ifc_wrap(s, ifc_strip(ifc_inverse(bounds,
                                           isl_mat_right_inverse(<<UnitRow(1 + s.dim, 1)>> \o face.eq),
                                           Len(face.eq), s.dim)))

ifc_loop(s, bounds) ==
    IF Len(bounds) <= 1 THEN bounds
    ELSE ifc_face(s, bounds, Call("isl_set_affine_hull", <<isl_set_add_equality(s, bounds[1])>>))

\* the matrix whose row 0 is a facet constraint, NoRow for NULL
initial_facet_constraint(s, bounds) ==
    IF Len(s.p) = 0 \/ Len(bounds) # s.dim THEN NoRow ELSE ifc_loop(s, bounds)

----------------------------------------------------------------------------
(* compute_facet, extend *)

facet_back(facet, Q) ==
    Call("isl_basic_set_preimage", <<facet, IF Q = NoRow THEN NoRow ELSE isl_mat_drop_rows(Q, 1, 1)>>)

facet_hull(s, U, Q) ==
    facet_back(Call("uset_convex_hull_wrap",
                    <<Call("isl_set_preimage",
                           <<s, IF U = NoRow THEN NoRow ELSE isl_mat_drop_cols(U, 1, 1)>>)>>),
               Q)

facet_inverse(s, U) == facet_hull(s, U, isl_mat_right_inverse(U))

compute_facet(s, c) == facet_inverse(s, isl_mat_right_inverse(<<UnitRow(1 + s.dim, 1), c>>))

\* the loop of extend visits at most this many facets
MaxHullRows == 16

\* lines 711-716: the new row is dropped if it equals an earlier row
extend_add(hull, w) == IF \E f \in 1..Len(hull) : hull[f] = w THEN hull ELSE Append(hull, w)

\* lines 704-717; hull is the sequence of the inequalities found, NoRow after
\* an error
RECURSIVE extend_ridges(_, _, _, _, _)
extend_wrapped(s, hull, i, facet, j, w) ==
    IF w = NoRow THEN NoRow ELSE extend_ridges(s, extend_add(hull, w), i, facet, j + 1)

extend_ridges(s, hull, i, facet, j) ==
    IF j > Len(facet.ineq) THEN hull
    ELSE extend_wrapped(s, hull, i, facet, j, Call("wrap_facet", <<s, hull[i], facet.ineq[j]>>))

\* lines 695-719
RECURSIVE extend_loop(_, _, _)
extend_facet(s, hull, i, facet) ==
    IF IsNull(facet) THEN NoRow ELSE extend_loop(s, extend_ridges(s, hull, i, facet, 1), i + 1)

extend_loop(s, hull, i) ==
    IF hull = NoRow THEN NoRow
    ELSE IF i > Len(hull) \/ i > MaxHullRows THEN hull
    ELSE extend_facet(s, hull, i, Call("compute_facet", <<s, hull[i]>>))

extend_finish(s, hull) ==
    IF hull = NoRow THEN NULL
    ELSE Call("isl_basic_set_simplify", <<BasicSet(s.dim, <<>>, hull, {"RATIONAL"})>>)

extend(s, initial) ==
    IF Len(s.p) = 0 THEN NULL
    ELSE IF initial = NoRow THEN NULL
    ELSE IF Len(initial[1]) # 1 + s.dim THEN NULL
    ELSE extend_finish(s, extend_loop(s, <<initial[1]>>, 1))

----------------------------------------------------------------------------
(* convex_hull_0d, convex_hull_pair, uset_convex_hull_elim *)

convex_hull_0d(s) ==
    IF s = NULL_set THEN NULL
    ELSE IF isl_set_is_empty(s) THEN isl_basic_set_empty(s.dim)
    ELSE isl_basic_set_universe(s.dim)

\* row r of bset[i] in the space (z, a1, x1, a2, x2)
pair_embed(r, i, dim) == isl_seq_clr((i + 1) * (1 + dim)) \o r \o isl_seq_clr((1 - i) * (1 + dim))

\* lines 927-935: -z_j + x1_j + x2_j = 0, j = 0 for the constants
pair_sum(j, dim) ==
    Tup([k \in 1..(3 * (1 + dim)) |->
        IF k = 1 + j THEN -1 ELSE IF k = 1 + (1 + dim) + j \/ k = 1 + 2 * (1 + dim) + j THEN 1 ELSE 0])

\* the mutant leaves out a_i >= 0
pair_ineqs_mutant(b, i, dim) == Tup([j \in 1..Len(b.ineq) |-> pair_embed(b.ineq[j], i, dim)])

\* lines 912-925
pair_ineqs(b, i, dim) ==
    Tup([j \in 1..Len(b.ineq) |-> pair_embed(b.ineq[j], i, dim)]) \o
    <<UnitRow(3 * (1 + dim), (i + 1) * (1 + dim) + 1)>>

pair_lift(b1, b2, dim) ==
    BasicSet(2 + 3 * dim,
             Tup([j \in 1..Len(b1.eq) |-> pair_embed(b1.eq[j], 0, dim)]) \o
             Tup([j \in 1..Len(b2.eq) |-> pair_embed(b2.eq[j], 1, dim)]) \o
             Tup([j \in 1..(1 + dim) |-> pair_sum(j - 1, dim)]),
             pair_ineqs(b1, 0, dim) \o pair_ineqs(b2, 1, dim),
             {})

convex_hull_pair(bset1, bset2) ==
    IF IsNull(bset1) \/ IsNull(bset2) THEN NULL
    ELSE Call("isl_basic_map_convex_hull",
              <<Call("isl_basic_set_remove_dims",
                     <<isl_basic_set_set_rational(pair_lift(bset1, bset2, bset1.dim)),
                       bset1.dim, 2 * (1 + bset1.dim)>>)>>)

\* isl_set_drop_basic_set moves the last member into the place of the
\* dropped one: after p[0] the members are taken from the last downwards
RECURSIVE elim_loop(_, _, _)
elim_loop(h, s, i) ==
    IF i < 2 THEN h ELSE elim_loop(Call("convex_hull_pair", <<h, s.p[i]>>), s, i - 1)

uset_convex_hull_elim(s) == elim_loop(s.p[1], s, Len(s.p))

----------------------------------------------------------------------------
(* uset_convex_hull_wrap_with_bounds, uset_convex_hull, uset_convex_hull_wrap *)

wwb_extend(s, bounds) == IF bounds = NoRow THEN NULL ELSE Call("extend", <<s, bounds>>)

uset_convex_hull_wrap_with_bounds(s, bounds) ==
    IF Len(bounds) # s.dim THEN NULL
    ELSE wwb_extend(s, Call("initial_facet_constraint", <<s, bounds>>))

uch_bounds(ib) == Call("uset_convex_hull_wrap_with_bounds", <<ib.set, ib.dirs>>)

\* the mutant tests the boundedness before the dimension
uch_case_mutant(s) ==
    IF Len(s.p) = 1 THEN "single"
    ELSE IF isl_set_is_bounded(s) = 0 THEN "elim"
    ELSE IF s.dim = 1 THEN "1d"
    ELSE "wrap"

\* lines 1045, 1050, 1053: the first test that succeeds on the normalized set
uch_case(s) ==
    IF Len(s.p) = 1 THEN "single"
    ELSE IF s.dim = 1 THEN "1d"
    ELSE IF isl_set_is_bounded(s) = 0 THEN "elim"
    ELSE "wrap"

\* lines 1046-1059
uch_chosen(s, c) ==
    IF c = "single" THEN s.p[1]
    ELSE IF c = "1d" THEN Call("convex_hull_1d", <<s>>)
    ELSE IF c = "elim" THEN Call("uset_convex_hull_elim", <<s>>)
    ELSE uch_bounds(Call("independent_bounds", <<s>>))

\* lines 1043-1059
uch_normalized(s) == IF s = NULL_set THEN NULL ELSE uch_chosen(s, uch_case(s))

uset_convex_hull(s) ==
    IF s = NULL_set THEN NULL_DEREF
    ELSE IF s.dim = 0 THEN Call("convex_hull_0d", <<s>>)
    ELSE uch_normalized(Call("isl_set_normalize", <<isl_set_set_rational(s)>>))

\* lines 1088-1101
uchw_normalized(s) ==
    IF s = NULL_set THEN NULL
    ELSE IF Len(s.p) = 1 THEN s.p[1]
    ELSE IF s.dim = 1 THEN Call("convex_hull_1d", <<s>>)
    ELSE uch_bounds(Call("independent_bounds", <<s>>))

uset_convex_hull_wrap(s) ==
    IF s = NULL_set THEN NULL_DEREF
    ELSE IF s.dim = 0 THEN isl_basic_set_set_rational(isl_basic_set_universe(s.dim))
    ELSE uchw_normalized(Call("isl_set_normalize", <<isl_set_set_rational(s)>>))

----------------------------------------------------------------------------
(* modulo_affine_hull, isl_map_convex_hull, isl_map_simple_hull *)

\* the mutant leaves out the intersection with the affine hull
mah_back_mutant(hull, T2, affine_hull) == Call("isl_basic_set_preimage", <<hull, T2>>)

\* lines 1127-1128
mah_back(hull, T2, affine_hull) ==
    Call("isl_basic_set_intersect", <<Call("isl_basic_set_preimage", <<hull, T2>>), affine_hull>>)

\* lines 1125-1128; for an empty affine hull T and T2 are NULL
mah_reduced(s, affine_hull, TT) ==
    mah_back(Call("uset_convex_hull", <<Call("isl_set_preimage", <<s, TT.T>>)>>), TT.T2, affine_hull)

modulo_affine_hull(s, affine_hull) ==
    mah_reduced(s, affine_hull, isl_basic_set_remove_equalities(affine_hull))

\* lines 1176-1179: the flag of the result is cleared without a NULL test
mch_finish(bset) == IF IsNull(bset) THEN NULL_DEREF ELSE ISL_F_CLR(bset, "RATIONAL")

mch_affine(s, affine_hull) ==
    IF IsNull(affine_hull) THEN NULL
    ELSE IF Len(affine_hull.eq) # 0 THEN mch_finish(Call("modulo_affine_hull", <<s, affine_hull>>))
    ELSE mch_finish(Call("uset_convex_hull", <<s>>))

isl_map_convex_hull(map) ==
    IF map = NULL_set THEN NULL
    ELSE IF Len(map.p) = 0 THEN isl_basic_set_empty(map.dim)
    ELSE mch_affine(map, Call("isl_set_affine_hull", <<map>>))

\* lines 1244-1260: rows collects the inequalities kept in bset
RECURSIVE sh_loop(_, _, _, _)
sh_step(rows, i, j, b) == sh_loop(b.set, IF b.ret = 1 THEN Append(rows, b.c) ELSE rows, i, j + 1)

sh_loop(s, rows, i, j) ==
    IF i > Len(s.p) THEN rows
    ELSE IF j > Len(s.p[i].ineq) THEN sh_loop(s, rows, i + 1, 1)
    ELSE sh_step(rows, i, j, Call("uset_is_bound", <<s, s.p[i].ineq[j]>>))

\* lines 1262-1266
sh_finish(bset, rows) ==
    Call("isl_basic_map_convex_hull",
         <<Call("isl_basic_set_simplify",
                <<[bset EXCEPT !.ineq = @ \o rows, !.flags = @ \ {"NO_IMPLICIT", "NO_REDUNDANT"}]>>)>>)

sh_affine(s, bset) == IF IsNull(bset) THEN NULL ELSE sh_finish(bset, sh_loop(s, <<>>, 1, 1))

isl_map_simple_hull(map) ==
    IF map = NULL_set THEN NULL
    ELSE IF Len(map.p) = 0 THEN isl_basic_set_empty(map.dim)
    ELSE IF Len(map.p) = 1 THEN map.p[1]
    ELSE sh_affine(map, Call("isl_set_affine_hull", <<map>>))

----------------------------------------------------------------------------
(* The call instruction *)

Call(f, a) ==
    CASE f = "isl_solve_lp" -> isl_solve_lp(a[1], a[2])
      [] f = "isl_basic_map_gauss" -> isl_basic_map_gauss(a[1])
      [] f = "isl_basic_set_simplify" -> isl_basic_set_simplify(a[1])
      [] f = "isl_basic_set_preimage" -> isl_basic_set_preimage(a[1], a[2])
      [] f = "isl_set_preimage" -> isl_set_preimage(a[1], a[2])
      [] f = "isl_basic_set_intersect" -> isl_basic_set_intersect(a[1], a[2])
      [] f = "isl_basic_set_remove_dims" -> isl_basic_set_remove_dims(a[1], a[2], a[3])
      [] f = "isl_set_normalize" -> isl_set_normalize(a[1])
      [] f = "isl_set_affine_hull" -> isl_set_affine_hull(a[1])
      [] f = "isl_basic_map_constraint_is_redundant" ->
             isl_basic_map_constraint_is_redundant(a[1], a[2], a[3])
      [] f = "isl_basic_map_convex_hull" -> isl_basic_map_convex_hull(a[1])
      [] f = "uset_is_bound" -> uset_is_bound(a[1], a[2])
      [] f = "is_independent_bound" -> is_independent_bound(a[1], a[2], a[3], a[4])
      [] f = "independent_bounds" -> independent_bounds(a[1])
      [] f = "wrap_facet" -> wrap_facet(a[1], a[2], a[3])
      [] f = "initial_facet_constraint" -> initial_facet_constraint(a[1], a[2])
      [] f = "compute_facet" -> compute_facet(a[1], a[2])
      [] f = "extend" -> extend(a[1], a[2])
      [] f = "convex_hull_1d" -> convex_hull_1d(a[1])
      [] f = "convex_hull_0d" -> convex_hull_0d(a[1])
      [] f = "convex_hull_pair" -> convex_hull_pair(a[1], a[2])
      [] f = "uset_convex_hull_elim" -> uset_convex_hull_elim(a[1])
      [] f = "uset_convex_hull_wrap_with_bounds" -> uset_convex_hull_wrap_with_bounds(a[1], a[2])
      [] f = "uset_convex_hull" -> uset_convex_hull(a[1])
      [] f = "uset_convex_hull_wrap" -> uset_convex_hull_wrap(a[1])
      [] f = "modulo_affine_hull" -> modulo_affine_hull(a[1], a[2])
      [] f = "isl_map_convex_hull" -> isl_map_convex_hull(a[1])
      [] f = "isl_map_simple_hull" -> isl_map_simple_hull(a[1])

----------------------------------------------------------------------------
(* Point sets of basic sets, decided by exact LP over the rational points *)

\* every point of b satisfies r >= 0
Implied(b, r) == IsEmptyLp(b) \/ ValidOn(b, r)

SubsetOf(a, b) ==
    \/ IsEmptyLp(a)
    \/ /\ \A i \in 1..Len(b.ineq) : ValidOn(a, b.ineq[i])
       /\ \A i \in 1..Len(b.eq) : ValidOn(a, b.eq[i]) /\ ValidOn(a, isl_seq_neg(b.eq[i]))

SamePointSet(a, b) == SubsetOf(a, b) /\ SubsetOf(b, a)

\* no inequality of b can be removed without changing the point set
NoRedundantIneq(b) ==
    \A i \in 1..Len(b.ineq) : ~Implied([b EXCEPT !.ineq = DropAt(b.ineq, i)], b.ineq[i])

\* the members of s that have a point
NonEmptyParts(s) == Pick(s.p, {i \in 1..Len(s.p) : ~IsEmptyLp(s.p[i])}, 1)

LpTight(lp, c0) == lp.res = "ok" /\ lp.num + lp.den * c0 = 0

\* r >= 0 on every member of s, with equality at some point of s
TightOn(s, r) ==
    /\ \A i \in 1..Len(s.p) : Implied(s.p[i], r)
    /\ \E i \in 1..Len(s.p) : LpTight(Call("isl_solve_lp", <<s.p[i], Coef(r)>>), r[1])

\* the value of the affine form r at the point p
Eval(r, p) == r[1] + DotFrom(Coef(r), p, 1)

InMember(b, p) ==
    /\ \A i \in 1..Len(b.eq) : Eval(b.eq[i], p) = 0
    /\ \A i \in 1..Len(b.ineq) : Eval(b.ineq[i], p) >= 0

NoOut == [op |-> "none", ret |-> 0, bset |-> NULL]

Poly(d, e, i) == BasicSet(d, e, i, {})

Union(d, ps) == [dim |-> d, p |-> ps]

----------------------------------------------------------------------------
(* Specification Spec1d: convex_hull_1d on unions of 1-D basic sets *)

MaxMembers1d == 3

LowerRows1d == {<<0, 1>>, <<-1, 2>>, <<-2, 2>>}
UpperRows1d == {<<1, -1>>, <<3, -2>>, <<4, -1>>}
EqRows1d    == {<<-1, 1>>, <<1, -2>>, <<-4, 1>>}

\* l and u leave a point between them
Compatible1d(l, u) == ~RatLt(u[1], -u[2], -l[1], l[2])

Members1d ==
    {BasicSet(1, <<e>>, <<>>, {"RATIONAL"}) : e \in EqRows1d} \cup
    {BasicSet(1, <<>>, <<>>, {"RATIONAL"})} \cup
    {BasicSet(1, <<>>, <<r>>, {"RATIONAL"}) : r \in LowerRows1d \cup UpperRows1d} \cup
    {BasicSet(1, <<>>, <<x[1], x[2]>>, {"RATIONAL"}) :
        x \in {x \in LowerRows1d \X UpperRows1d : Compatible1d(x[1], x[2])}} \cup
    {BasicSet(1, <<>>, <<x[2], x[1]>>, {"RATIONAL"}) :
        x \in {x \in LowerRows1d \X UpperRows1d : x[1][2] = 1 /\ Compatible1d(x[1], x[2])}}

Iv(lo, hi) == BasicSet(1, <<>>, << <<-lo, 1>>, <<hi, -1>> >>, {"RATIONAL"})

\* the collinear union {1<=x<=3} U {2<=x<=5} U {7<=x<=8}
Collinear == Union(1, <<Iv(1, 3), Iv(2, 5), Iv(7, 8)>>)

Unions1d ==
    {Collinear} \cup
    UNION {{Union(1, q) : q \in [1..n -> Members1d]} : n \in 2..MaxMembers1d}

Init1d ==
    /\ pc = "start"
    /\ set \in Unions1d
    /\ row = NoRow
    /\ out = NoOut

Hull1d ==
    /\ pc = "start"
    /\ pc' = "done"
    /\ out' = [op |-> "convex_hull_1d", ret |-> 0, bset |-> Call("convex_hull_1d", <<set>>)]
    /\ UNCHANGED <<set, row>>

Next1d == Hull1d

Spec1d == Init1d /\ [][Next1d]_vars

----------------------------------------------------------------------------
(* Rational bounds of 1-D basic sets, as pairs <<num, den>> with den > 0 *)

RatEq(a, b) == a[1] * b[2] = b[1] * a[2]
RatLe(a, b) == a[1] * b[2] <= b[1] * a[2]

EqPoint1d(e) == <<-(isl_int_sgn(e[2]) * e[1]), Abs(e[2])>>

LowerBounds1d(b) ==
    {<<-b.ineq[j][1], b.ineq[j][2]>> : j \in {j \in 1..Len(b.ineq) : b.ineq[j][2] > 0}} \cup
    {EqPoint1d(b.eq[j]) : j \in 1..Len(b.eq)}

UpperBounds1d(b) ==
    {<<b.ineq[j][1], -b.ineq[j][2]>> : j \in {j \in 1..Len(b.ineq) : b.ineq[j][2] < 0}} \cup
    {EqPoint1d(b.eq[j]) : j \in 1..Len(b.eq)}

AllLower1d(s) == UNION {LowerBounds1d(s.p[i]) : i \in 1..Len(s.p)}
AllUpper1d(s) == UNION {UpperBounds1d(s.p[i]) : i \in 1..Len(s.p)}

\* the lower [upper] inequalities of h are the single smallest lower [largest
\* upper] bound of the members of s, or none if a member has no such bound
Lower1dOk(h, s, lows) ==
    IF \A i \in 1..Len(s.p) : LowerBounds1d(s.p[i]) # {}
    THEN /\ Cardinality(lows) = 1
         /\ \A j \in lows :
              /\ \E m \in AllLower1d(s) : RatEq(<<-h.ineq[j][1], h.ineq[j][2]>>, m)
              /\ \A m \in AllLower1d(s) : RatLe(<<-h.ineq[j][1], h.ineq[j][2]>>, m)
    ELSE lows = {}

Upper1dOk(h, s, upps) ==
    IF \A i \in 1..Len(s.p) : UpperBounds1d(s.p[i]) # {}
    THEN /\ Cardinality(upps) = 1
         /\ \A j \in upps :
              /\ \E m \in AllUpper1d(s) : RatEq(<<h.ineq[j][1], -h.ineq[j][2]>>, m)
              /\ \A m \in AllUpper1d(s) : RatLe(m, <<h.ineq[j][1], -h.ineq[j][2]>>)
    ELSE upps = {}

Bounds1dOk(h, s, lows, upps) ==
    /\ ~IsNull(h)
    /\ h.eq = <<>>
    /\ lows \cup upps = 1..Len(h.ineq)
    /\ Lower1dOk(h, s, lows)
    /\ Upper1dOk(h, s, upps)

\* C3: the 1-D hull of two or more non-empty members has as lower bound the
\* smallest of the members' lower bounds and as upper bound the largest of the
\* members' upper bounds, whatever the member order; a direction in which some
\* member has no bound has no inequality in the result, also when a later
\* member has one.
C3_Hull1dBounds ==
    (pc = "done" /\ out.op = "convex_hull_1d" /\ Len(set.p) >= 2) =>
        Bounds1dOk(out.bset, set,
                   {j \in 1..Len(out.bset.ineq) : out.bset.ineq[j][2] > 0},
                   {j \in 1..Len(out.bset.ineq) : out.bset.ineq[j][2] < 0})

\* the collinear union has been merged into {1 <= x <= 8}
C3_Witness ==
    /\ pc = "done" /\ out.op = "convex_hull_1d"
    /\ set = Collinear
    /\ out.bset.ineq = << <<-1, 1>>, <<8, -1>> >>

----------------------------------------------------------------------------
(* Specification SpecBasic: the operations on a single basic map *)

MaxCoefB == 1
MaxIneqB == 2

Rows1B == {<<c0, c1>> : c0 \in -MaxCoefB..MaxCoefB, c1 \in -MaxCoefB..MaxCoefB}

Rows2B == {<<0, 1, 0>>, <<0, 0, 1>>, <<1, -1, 0>>, <<1, 0, -1>>, <<0, 1, -1>>, <<1, 0, 0>>,
           <<-1, 1, 1>>}

SeqsUpTo(S, n) == UNION {[1..k -> S] : k \in 0..n}

RawBasic(d, rows) ==
    {BasicSet(d, e, i, {}) : e \in SeqsUpTo(rows, 1), i \in SeqsUpTo(rows, MaxIneqB)}

\* a basic map may carry NO_REDUNDANT only when it has no redundant inequality
BasicInputs(d, rows) ==
    RawBasic(d, rows) \cup
    {ISL_F_SET(b, "NO_REDUNDANT") : b \in {b \in RawBasic(d, rows) : NoRedundantIneq(b)}} \cup
    {isl_basic_set_empty(d)}

RowsB(d) == IF d = 1 THEN Rows1B ELSE Rows2B

InitBasic ==
    /\ pc = "start"
    /\ \E d \in 1..2 :
         /\ set \in {Union(d, <<b>>) : b \in BasicInputs(d, RowsB(d))}
         /\ row \in RowsB(d)
    /\ out = NoOut

RedundantOut(r) == [op |-> "constraint_is_redundant", ret |-> r.ret, bset |-> r.bmap]

ConstraintIsRedundant ==
    /\ pc = "start"
    /\ \E has_opt_d \in BOOLEAN :
         \E r \in {Call("isl_basic_map_constraint_is_redundant", <<set.p[1], row, has_opt_d>>)} :
             /\ out' = RedundantOut(r)
             /\ set' = [set EXCEPT !.p[1] = r.bmap]
    /\ pc' = "done"
    /\ UNCHANGED row

BasicMapConvexHull ==
    /\ pc = "start"
    /\ out' = [op |-> "basic_map_convex_hull", ret |-> 0,
               bset |-> Call("isl_basic_map_convex_hull", <<set.p[1]>>)]
    /\ pc' = "done"
    /\ UNCHANGED <<set, row>>

NextBasic == ConstraintIsRedundant \/ BasicMapConvexHull

SpecBasic == InitBasic /\ [][NextBasic]_vars

\* an inequality with no variable in it
ConstantRow(r) == IsZeroSeq(Coef(r))

\* C5: isl_basic_map_constraint_is_redundant returns 1 exactly when every point
\* of P satisfies c >= 0, for every P with any mix of equalities and
\* inequalities (also with equalities and no inequality on some variable) and
\* every row c.  Stated for the P that have a point, where "every point of P
\* satisfies c" has no vacuous reading.
C5_RedundantIffImplied ==
    (pc = "done" /\ out.op = "constraint_is_redundant" /\ ~IsEmptyLp(set.p[1])) =>
        (out.ret = 1 <=> ValidOn(set.p[1], row))

FastPath(g) == {"EMPTY", "NO_REDUNDANT"} \cap g.flags # {} \/ Len(g.ineq) <= 1

HullOfBasicOk(P, h, fast) ==
    /\ SamePointSet(P, h)
    /\ NoRedundantIneq(h)
    /\ fast => h.flags \ {"EMPTY"} = P.flags \ {"EMPTY"}
    /\ ~fast => {"NO_REDUNDANT", "NO_IMPLICIT"} \subseteq h.flags

\* C6: the result of isl_basic_map_convex_hull has the point set of P and no
\* inequality whose removal leaves the point set unchanged, on every path; the
\* fast paths set no flag, the full path sets NO_REDUNDANT and NO_IMPLICIT.
\* Stated for the P whose inequalities all mention a variable.
C6_HullNoRedundant ==
    (pc = "done" /\ out.op = "basic_map_convex_hull" /\
     \A i \in 1..Len(set.p[1].ineq) : ~ConstantRow(set.p[1].ineq[i])) =>
        HullOfBasicOk(set.p[1], out.bset, FastPath(Call("isl_basic_map_gauss", <<set.p[1]>>)))

----------------------------------------------------------------------------
(* The unions the hull operations are applied to *)

Box2(x0, x1, y0, y1) ==
    Poly(2, <<>>, << <<-x0, 1, 0>>, <<x1, -1, 0>>, <<-y0, 0, 1>>, <<y1, 0, -1>> >>)

\* {x >= 0, y >= 0, x + y <= 2} and {x <= 2, y <= 2, x + y >= 2}
Tri1 == Poly(2, <<>>, << <<0, 1, 0>>, <<0, 0, 1>>, <<2, -1, -1>> >>)
Tri2 == Poly(2, <<>>, << <<2, -1, 0>>, <<2, 0, -1>>, <<-2, 1, 1>> >>)

UnitSq == Box2(0, 1, 0, 1)
Sq12   == Box2(1, 2, 2, 3)
Sq20   == Box2(2, 3, 0, 1)

\* the square with corners (1,0), (2,1), (1,2), (0,1)
Diamond == Poly(2, <<>>, << <<-1, 1, 1>>, <<3, -1, -1>>, <<1, -1, 1>>, <<1, 1, -1>> >>)

\* the unit square with the redundant inequality x <= 3
RedSq == Poly(2, <<>>, << <<0, 1, 0>>, <<1, -1, 0>>, <<0, 0, 1>>, <<1, 0, -1>>, <<3, -1, 0>> >>)

Pt00 == Poly(2, << <<0, 1, 0>>, <<0, 0, 1>> >>, <<>>)
Pt21 == Poly(2, << <<-2, 1, 0>>, <<-1, 0, 1>> >>, <<>>)
Pt03 == Poly(2, << <<0, 1, 0>>, <<-3, 0, 1>> >>, <<>>)

\* the segments {y = 0, 0 <= x <= 2} and {x = y, 0 <= x <= 1}
SegX == Poly(2, << <<0, 0, 1>> >>, << <<0, 1, 0>>, <<2, -1, 0>> >>)
SegD == Poly(2, << <<0, 1, -1>> >>, << <<0, 1, 0>>, <<1, -1, 0>> >>)

\* {x >= 0, 0 <= y <= 1} and {x <= 0, 0 <= y <= 1}
StripR == Poly(2, <<>>, << <<0, 1, 0>>, <<0, 0, 1>>, <<1, 0, -1>> >>)
StripL == Poly(2, <<>>, << <<0, -1, 0>>, <<0, 0, 1>>, <<1, 0, -1>> >>)

HalfPlane == Poly(2, <<>>, << <<0, 1, 0>> >>)

\* {x + y = 1, 0 <= x <= 1}, {x + y = 1, 2 <= x <= 3}, {x + y = 1, 0 <= y <= 1},
\* {x + y = 1, 2 <= y <= 3}
Aff01 == Poly(2, << <<-1, 1, 1>> >>, << <<0, 1, 0>>, <<1, -1, 0>> >>)
Aff23 == Poly(2, << <<-1, 1, 1>> >>, << <<-2, 1, 0>>, <<3, -1, 0>> >>)
AffY  == Poly(2, << <<-1, 1, 1>> >>, << <<0, 0, 1>>, <<1, 0, -1>> >>)
AffY2 == Poly(2, << <<-1, 1, 1>> >>, << <<-2, 0, 1>>, <<3, 0, -1>> >>)

\* {x + y = 1, 0 <= x <= 1, y >= -5}
RedAff == Poly(2, << <<-1, 1, 1>> >>, << <<0, 1, 0>>, <<1, -1, 0>>, <<5, 0, 1>> >>)

\* members without a point: flagged EMPTY; {x = 0, x = 1}; {x = 0, y = 0,
\* x + y >= 1}; {x = 0, x >= 1}; {x >= 1, x <= 0, 0 <= y <= 1}
EmptyFlagged2 == isl_basic_set_empty(2)
EmptyEqs2     == Poly(2, << <<0, 1, 0>>, <<-1, 1, 0>> >>, <<>>)
EmptyPt2      == Poly(2, << <<0, 1, 0>>, <<0, 0, 1>> >>, << <<-1, 1, 1>> >>)
EmptyRay2     == Poly(2, << <<0, 1, 0>> >>, << <<-1, 1, 0>> >>)
EmptyBox2     == Poly(2, <<>>, << <<-1, 1, 0>>, <<0, -1, 0>>, <<0, 0, 1>>, <<1, 0, -1>> >>)

\* the tetrahedra conv{0, e1, e2, e3} and conv{(1,1,1), e1, e2, e3}
Tetra1 == Poly(3, <<>>, << <<0, 1, 0, 0>>, <<0, 0, 1, 0>>, <<0, 0, 0, 1>>, <<1, -1, -1, -1>> >>)
Tetra2 == Poly(3, <<>>, << <<-1, 1, 1, 1>>, <<1, -1, -1, 1>>, <<1, -1, 1, -1>>, <<1, 1, -1, -1>> >>)

Pt111 == Poly(3, << <<-1, 1, 0, 0>>, <<-1, 0, 1, 0>>, <<-1, 0, 0, 1>> >>, <<>>)

IvZ(lo, hi) == Poly(1, <<>>, << <<-lo, 1>>, <<hi, -1>> >>)

\* {x = 0, x = 1}, {x = 0, x >= 1}, {x >= 1, x <= 0}, {1 <= 2x <= 3}, {x = 2},
\* {x >= 1}, {x <= 0}, {0 <= x <= 1, x <= 4}
EmptyEqs1 == Poly(1, << <<0, 1>>, <<-1, 1>> >>, <<>>)
EmptyRay1 == Poly(1, << <<0, 1>> >>, << <<-1, 1>> >>)
EmptyIv1  == Poly(1, <<>>, << <<-1, 1>>, <<0, -1>> >>)
Half1     == Poly(1, <<>>, << <<-1, 2>>, <<3, -2>> >>)
Pt1       == Poly(1, << <<-2, 1>> >>, <<>>)
RayUp1    == Poly(1, <<>>, << <<-1, 1>> >>)
RayDown1  == Poly(1, <<>>, << <<0, -1>> >>)
RedIv1    == Poly(1, <<>>, << <<0, 1>>, <<1, -1>>, <<4, -1>> >>)

Full2 == {Tri1, Tri2, UnitSq, Sq12, Sq20, Diamond}
Flat2 == {Pt00, Pt21, Pt03, SegX, SegD}

\* bounded unions of two or three members in dimension 2 and 3
BoundedUnions ==
    {Union(2, <<x[1], x[2]>>) : x \in {x \in Full2 \X (Full2 \cup Flat2) : x[1] # x[2]}} \cup
    {Union(2, <<b, a>>) : a \in {Tri1, UnitSq, Sq12}, b \in Flat2} \cup
    {Union(2, <<Tri1, Tri2, Sq12>>), Union(2, <<Pt00, Pt21, Pt03>>), Union(2, <<SegX, SegD>>),
     Union(2, <<SegD, Pt21, UnitSq>>), Union(2, <<RedSq, Sq12>>),
     Union(3, <<Tetra1, Tetra2>>), Union(3, <<Tetra2, Tetra1>>), Union(3, <<Tetra1, Pt111>>)}

Pool1 == {IvZ(0, 1), IvZ(2, 5), Half1, Pt1, RayUp1, RayDown1, RedIv1}

HullUnions ==
    {Union(2, <<Tri1, Tri2>>), Union(2, <<Tri2, Tri1>>), Union(2, <<UnitSq, Sq12>>),
     Union(2, <<Sq12, UnitSq>>), Union(2, <<UnitSq, Pt21>>), Union(2, <<Pt21, Diamond>>),
     Union(2, <<SegX, Sq12>>), Union(2, <<Tri1, Tri2, Sq12>>), Union(2, <<RedSq, Sq12>>),
     Union(2, <<StripR, StripL>>), Union(2, <<StripL, StripR>>), Union(2, <<UnitSq, StripR>>),
     Union(2, <<HalfPlane, Pt21>>), Union(2, <<StripR, Pt00, Sq12>>),
     Union(2, <<Aff01, Aff23>>), Union(2, <<Aff23, Aff01>>), Union(2, <<AffY, Aff23>>), Union(2, <<AffY, AffY2>>),
     Union(2, <<Pt00, Pt21>>), Union(2, <<SegX, Pt00>>), Union(2, <<RedAff, Aff23>>),
     Union(2, <<UnitSq>>), Union(2, <<RedSq>>), Union(2, <<Tri1>>), Union(2, <<StripR>>),
     Union(2, <<Aff01>>), Union(2, <<RedAff>>), Union(2, <<Pt21>>), Union(2, <<UnitSq, UnitSq>>),
     Union(2, <<EmptyPt2>>), Union(2, <<EmptyFlagged2>>),
     Union(2, <<UnitSq, EmptyFlagged2>>), Union(2, <<EmptyFlagged2, Tri1, Tri2>>),
     Union(2, <<UnitSq, EmptyEqs2>>), Union(2, <<EmptyEqs2, Tri1, Tri2>>),
     Union(2, <<UnitSq, EmptyPt2>>), Union(2, <<EmptyPt2, UnitSq>>),
     Union(2, <<Tri1, Tri2, EmptyPt2>>), Union(2, <<UnitSq, EmptyRay2>>),
     Union(2, <<StripR, StripL, EmptyRay2>>), Union(2, <<StripR, EmptyPt2, StripL>>),
     Union(2, <<UnitSq, EmptyBox2>>), Union(2, <<EmptyBox2, Tri1, Tri2>>),
     Union(2, <<Aff01, EmptyPt2, Aff23>>),
     Union(3, <<Tetra1, Tetra2>>), Union(3, <<Tetra1, Pt111>>),
     Union(0, <<Poly(0, <<>>, <<>>)>>), Union(0, <<isl_basic_set_empty(0), Poly(0, <<>>, <<>>)>>),
     Union(1, <<IvZ(1, 3), IvZ(2, 5), IvZ(7, 8)>>),
     Union(1, <<EmptyEqs1, IvZ(0, 5)>>), Union(1, <<IvZ(0, 5), EmptyEqs1>>),
     Union(1, <<EmptyRay1, IvZ(0, 5)>>), Union(1, <<IvZ(0, 1), EmptyRay1, IvZ(2, 5)>>),
     Union(1, <<EmptyIv1, IvZ(0, 5)>>), Union(1, <<RayUp1, EmptyIv1, Pt1>>),
     Union(1, <<isl_basic_set_empty(1), IvZ(0, 5)>>)} \cup
    {Union(1, <<x[1], x[2]>>) : x \in {x \in Pool1 \X Pool1 : x[1] # x[2]}} \cup
    {Union(1, <<a>>) : a \in Pool1}

----------------------------------------------------------------------------
(* Specification SpecHull: isl_map_convex_hull and isl_map_simple_hull *)

InitHull ==
    /\ pc = "start"
    /\ set \in HullUnions
    /\ row = NoRow
    /\ out = NoOut

MapConvexHull ==
    /\ pc = "start"
    /\ pc' = "done"
    /\ out' = [op |-> "isl_map_convex_hull", ret |-> 0, bset |-> Call("isl_map_convex_hull", <<set>>)]
    /\ UNCHANGED <<set, row>>

MapSimpleHull ==
    /\ pc = "start"
    /\ pc' = "done"
    /\ out' = [op |-> "isl_map_simple_hull", ret |-> 0, bset |-> Call("isl_map_simple_hull", <<set>>)]
    /\ UNCHANGED <<set, row>>

NextHull == MapConvexHull \/ MapSimpleHull

SpecHull == InitHull /\ [][NextHull]_vars

HullDone == pc = "done" /\ out.op = "isl_map_convex_hull"

SimpleDone == pc = "done" /\ out.op = "isl_map_simple_hull"

\* C1: when isl_map_convex_hull returns a result for a union with a non-empty
\* member, every point of every member satisfies every equality and every
\* inequality of the result.
C1_Containment ==
    (HullDone /\ ~IsNull(out.bset) /\ Len(NonEmptyParts(set)) > 0) =>
        \A i \in 1..Len(set.p) : SubsetOf(set.p[i], out.bset)

\* the two triangles are contained in their hull, the square
C1_Witness ==
    /\ HullDone
    /\ set = Union(2, <<Tri1, Tri2>>)
    /\ ~IsNull(out.bset)
    /\ Len(out.bset.ineq) = 4
    /\ \A i \in 1..2 : SubsetOf(set.p[i], out.bset)

----------------------------------------------------------------------------
(* The facets of the convex hull of a bounded union, found from the points  *)
(* with integer coordinates of its members: every member of the unions used *)
(* has its vertices among them                                              *)

GridMax == 3

Grid(d) ==
    IF d = 2 THEN {<<x, y>> : x \in 0..GridMax, y \in 0..GridMax}
    ELSE {<<x, y, z>> : x \in 0..GridMax, y \in 0..GridMax, z \in 0..GridMax}

PointsOf(s) == {p \in Grid(s.dim) : \E i \in 1..Len(s.p) : InMember(s.p[i], p)}

\* the row with normal n that vanishes at p
RowAt(n, p) == <<-DotFrom(n, p, 1)>> \o n

\* the line through p and q, the plane through p, q and s
LineThrough(p, q) == RowAt(<<p[2] - q[2], q[1] - p[1]>>, p)

Cross(u, v) == <<u[2] * v[3] - u[3] * v[2], u[3] * v[1] - u[1] * v[3], u[1] * v[2] - u[2] * v[1]>>

Minus(p, q) == Tup([i \in 1..Len(p) |-> p[i] - q[i]])

PlaneThrough(p, q, s) == RowAt(Cross(Minus(q, p), Minus(s, p)), p)

\* the rows through d affinely independent points of P
Hyperplanes(P, d) ==
    IF d = 2 THEN {LineThrough(x[1], x[2]) : x \in P \X P}
    ELSE {PlaneThrough(x[1], x[2], x[3]) : x \in P \X P \X P}

\* the rows that are non-negative on P and vanish on d affinely independent
\* points of P, divided by their gcd
FacetsOfPoints(P, d) ==
    {isl_seq_normalize(r) : r \in {r \in Hyperplanes(P, d) :
                                       ~IsZeroSeq(Coef(r)) /\ \A p \in P : Eval(r, p) >= 0}}

FacetsOfConv(s) == FacetsOfPoints(PointsOf(s), s.dim)

----------------------------------------------------------------------------
(* Specification SpecExtend: uset_convex_hull_wrap_with_bounds on the       *)
(* normalized bounded sets uset_convex_hull passes to it                    *)

Normalized(u) == Call("isl_set_normalize", <<isl_set_set_rational(u)>>)

\* lines 1166-1173 and 1045-1054: the affine hull has no equality, more than
\* one member is left and the dimension is at least two
ExtendInputs ==
    {s \in {Normalized(u) : u \in BoundedUnions} :
        Len(s.p) >= 2 /\ s.dim >= 2 /\ Len(Call("isl_set_affine_hull", <<s>>).eq) = 0}

InitExtend ==
    /\ pc = "start"
    /\ set \in ExtendInputs
    /\ row = NoRow
    /\ out = NoOut

\* lines 1056-1059 and 983-984: row holds the matrix bounds
InitialFacet ==
    /\ pc = "start"
    /\ pc' = "facet"
    /\ \E ib \in {Call("independent_bounds", <<set>>)} :
         /\ set' = ib.set
         /\ row' = IF Len(ib.dirs) # set.dim THEN NoRow
                   ELSE Call("initial_facet_constraint", <<ib.set, ib.dirs>>)
    /\ UNCHANGED out

\* lines 985-988
Extend ==
    /\ pc = "facet"
    /\ pc' = "done"
    /\ out' = [op |-> "extend", ret |-> 0, bset |-> wwb_extend(set, row)]
    /\ UNCHANGED <<set, row>>

NextExtend == InitialFacet \/ Extend

SpecExtend == InitExtend /\ [][NextExtend]_vars

\* the inequalities of h are the rows of ref, each once, and hold on s
ExactFacets(h, s, ref) ==
    /\ ~IsNull(h)
    /\ h.eq = <<>>
    /\ SeqToSet(h.ineq) = ref
    /\ Len(h.ineq) = Cardinality(ref)
    /\ \A i \in 1..Len(h.ineq) : \A j \in 1..Len(s.p) : Implied(s.p[j], h.ineq[i])

\* C2: for a bounded full-dimensional union of two or more polyhedra in
\* dimension d >= 2, the inequalities of the polyhedron extend returns are
\* exactly the facets of the convex hull: each is valid on the union and
\* vanishes on d affinely independent points of the hull, and every facet of
\* the hull is among them, once.
C2_ExtendFacets ==
    (pc = "done" /\ out.op = "extend") => ExactFacets(out.bset, set, FacetsOfConv(set))

\* the two triangles give the square with its four facets
C2_Witness ==
    /\ pc = "done" /\ out.op = "extend"
    /\ Len(set.p) = 2 /\ set.p[1].ineq = Tri1.ineq /\ set.p[2].ineq = Tri2.ineq
    /\ SeqToSet(out.bset.ineq) = {<<0, 1, 0>>, <<2, -1, 0>>, <<0, 0, 1>>, <<2, 0, -1>>}
    /\ Len(out.bset.ineq) = 4

----------------------------------------------------------------------------
(* isl_map_simple_hull against the members and the convex hull *)

\* u is a positive multiple of v or v of u
SameDirection(u, v) == ~IsZeroSeq(u) /\ isl_seq_normalize(u) = isl_seq_normalize(v)

\* r has the coefficients of an inequality of a member of s
TranslateOfMember(s, r) ==
    \E i \in 1..Len(s.p) : \E j \in 1..Len(s.p[i].ineq) : SameDirection(Coef(r), Coef(s.p[i].ineq[j]))

HullInside(s, h, sh) ==
    IsNull(h) \/ ((\A i \in 1..Len(s.p) : SubsetOf(s.p[i], h)) /\ SubsetOf(h, sh))

TranslatesOnly(s, sh) == \A k \in 1..Len(sh.ineq) : TranslateOfMember(s, sh.ineq[k])

TightOnly(s, sh) == \A k \in 1..Len(sh.ineq) : TightOn(s, sh.ineq[k])

SimpleHullOk(s, h, sh) == HullInside(s, h, sh) /\ TranslatesOnly(s, sh) /\ TightOnly(s, sh)

\* C4: S is contained in hull(S) and hull(S) in simple_hull(S); every
\* inequality of simple_hull(S) has the coefficients of an inequality of a
\* member of S up to a positive factor, and its constant is the tight bound of
\* S in that direction.
C4_SimpleHull ==
    (SimpleDone /\ ~IsNull(out.bset)) =>
        SimpleHullOk(set, Call("isl_map_convex_hull", <<set>>), out.bset)

----------------------------------------------------------------------------
(* Empty members, the affine hull and single members in isl_map_convex_hull *)

WithoutEmpty(s) == [s EXCEPT !.p = NonEmptyParts(s)]

SameHull(a, b) == ~IsNull(a) /\ ~IsNull(b) /\ SamePointSet(a, b)

\* C7: a member without a rational point, flagged EMPTY or not, does not
\* change the hull: the hull of a union with such members and at least one
\* member with a point is the hull of the union without them, on the 1-D, the
\* elimination and the wrapping strategy.
C7_EmptyIgnored ==
    (HullDone /\ Len(NonEmptyParts(set)) > 0 /\ Len(NonEmptyParts(set)) < Len(set.p)) =>
        SameHull(out.bset, Call("isl_map_convex_hull", <<WithoutEmpty(set)>>))

IsEquality(b, e) == Implied(b, e) /\ Implied(b, isl_seq_neg(e))

\* h lies in the affine hull A of s and has as many equalities, all of them
\* valid on s, and none hidden in its inequalities
AffinePreserved(s, A, h) ==
    /\ \A k \in 1..Len(A.eq) : IsEquality(h, A.eq[k]) /\ \A i \in 1..Len(s.p) : IsEquality(s.p[i], A.eq[k])
    /\ \A k \in 1..Len(h.eq) : \A i \in 1..Len(s.p) : IsEquality(s.p[i], h.eq[k])
    /\ Len(h.eq) = Len(A.eq)
    /\ \A k \in 1..Len(h.ineq) : ~Implied(h, isl_seq_neg(h.ineq[k]))

\* C8: the result of isl_map_convex_hull satisfies every equality of the
\* affine hull A of S and has exactly the affine hull of S; when A has no
\* equality the result has none.
C8_AffineHull ==
    (HullDone /\ ~IsNull(out.bset) /\ Len(NonEmptyParts(set)) > 0) =>
        AffinePreserved(set, Call("isl_set_affine_hull", <<set>>), out.bset)

\* {x + y = 1, 0 <= x <= 1} U {x + y = 1, 2 <= x <= 3} gives
\* {x + y = 1, 0 <= x <= 3}
C8_Witness ==
    /\ HullDone
    /\ set = Union(2, <<Aff01, Aff23>>)
    /\ out.bset.eq = << <<-1, 1, 1>> >>
    /\ SeqToSet(out.bset.ineq) = {<<0, 1, 0>>, <<3, -1, 0>>}

SingleOk(h, n) ==
    /\ ~IsNull(h)
    /\ SameHull(h, Call("isl_basic_map_convex_hull", <<n.p[1]>>))
    /\ NoRedundantIneq(h)

\* C9: when one member P is left after normalization, isl_map_convex_hull
\* returns the redundancy-reduced form of P: the point set of what
\* isl_basic_map_convex_hull returns for P, without a redundant inequality.
C9_SingleMember ==
    (HullDone /\ Len(Normalized(set).p) = 1) => SingleOk(out.bset, Normalized(set))

----------------------------------------------------------------------------
(* Specification SpecErr: the control flow of the three public operations  *)
(* when internal steps fail.  A pointer is "obj" or "NULL"; set holds the  *)
(* local pointers of the running functions, row the public operation and   *)
(* the caller of uset_convex_hull, out what has happened so far.  A        *)
(* library function returns NULL for a NULL argument and may fail, i.e.    *)
(* return NULL, for any other; the branch conditions on the data are       *)
(* chosen freely.  Reading through a NULL pointer is undefined: the run    *)
(* stops, or the operation returns anything.                               *)

Ptr == {"NULL", "obj"}

Locals0 ==
    [map |-> "NULL", model |-> "NULL", set |-> "NULL", affine_hull |-> "NULL", bset |-> "NULL",
     convex_hull |-> "NULL", bounds |-> "NULL", bmap |-> "NULL", tab |-> "NULL"]

NoFrame == [op |-> "none", via |-> "none"]

ErrOut0 == [op |-> "none", ret |-> "pending", failed |-> FALSE, deref |-> FALSE, blind |-> FALSE]

Returns(args) == IF "NULL" \in args THEN {"NULL"} ELSE Ptr

Fails(args, r) == r = "NULL" /\ "NULL" \notin args

\* go on at label l; f tells that the step just taken has failed
Step(l, f) == pc' = l /\ out' = [out EXCEPT !.failed = @ \/ f]

\* the public operation returns v
Finish(v, f) == pc' = "done" /\ out' = [out EXCEPT !.ret = v, !.failed = @ \/ f]

NullDeref ==
    /\ pc' = "done"
    /\ \E v \in Ptr \cup {"crash"} : out' = [out EXCEPT !.deref = TRUE, !.ret = v]

InitErr == pc = "start" /\ set = Locals0 /\ row = NoFrame /\ out = ErrOut0

\* the caller passes a map, a basic map, or NULL
Enter(op, l, field) ==
    /\ pc = "start"
    /\ \E p \in Ptr : set' = [set EXCEPT ![field] = p]
    /\ row' = [row EXCEPT !.op = op]
    /\ pc' = l
    /\ out' = [out EXCEPT !.op = op]

EnterBasicMapConvexHull == Enter("isl_basic_map_convex_hull", "bmch_88", "bmap")
EnterMapConvexHull == Enter("isl_map_convex_hull", "mch_1150", "map")
EnterMapSimpleHull == Enter("isl_map_simple_hull", "msh_1209", "map")

(* isl_basic_map_convex_hull, also entered from isl_map_simple_hull *)

bmch_return(v, f) ==
    IF row.op = "isl_map_simple_hull"
    THEN set' = [set EXCEPT !.bset = v] /\ Step("msh_1266", f)
    ELSE Finish(v, f) /\ UNCHANGED set

bmch_88 ==
    /\ pc = "bmch_88"
    /\ IF set.bmap = "NULL" THEN bmch_return("NULL", FALSE)
       ELSE Step("bmch_91", FALSE) /\ UNCHANGED set
    /\ UNCHANGED row

bmch_91 ==
    /\ pc = "bmch_91"
    /\ \E r \in Returns({set.bmap}) :
         set' = [set EXCEPT !.bmap = r] /\ Step("bmch_92", Fails({set.bmap}, r))
    /\ UNCHANGED row

bmch_92 ==
    /\ pc = "bmch_92"
    /\ IF set.bmap = "NULL" THEN NullDeref /\ UNCHANGED set
       ELSE \E fast \in BOOLEAN :
                IF fast THEN bmch_return(set.bmap, FALSE)
                ELSE Step("bmch_99", FALSE) /\ UNCHANGED set
    /\ UNCHANGED row

bmch_99 ==
    /\ pc = "bmch_99"
    /\ \E r \in Ptr : set' = [set EXCEPT !.tab = r] /\ Step("bmch_102", r = "NULL")
    /\ UNCHANGED row

bmch_102 ==
    /\ pc = "bmch_102"
    /\ \E r \in Returns({set.bmap, set.tab}) :
         set' = [set EXCEPT !.bmap = r] /\ Step("bmch_103", Fails({set.bmap, set.tab}, r))
    /\ UNCHANGED row

bmch_103 ==
    /\ pc = "bmch_103"
    /\ IF set.bmap = "NULL" THEN NullDeref /\ UNCHANGED set
       ELSE bmch_return(set.bmap, FALSE)
    /\ UNCHANGED row

(* isl_map_convex_hull *)

mch_1150 ==
    /\ pc = "mch_1150"
    /\ IF set.map = "NULL" THEN Finish("NULL", FALSE)
       ELSE \E n \in 0..1 : Step(IF n = 0 THEN "mch_1155" ELSE "mch_1160", FALSE)
    /\ UNCHANGED <<set, row>>

mch_1155 ==
    /\ pc = "mch_1155"
    /\ \E r \in Ptr : Finish(r, r = "NULL")
    /\ UNCHANGED <<set, row>>

mch_1160 ==
    /\ pc = "mch_1160"
    /\ \E r \in Returns({set.map}) :
         set' = [set EXCEPT !.map = r] /\ Step("mch_1161", Fails({set.map}, r))
    /\ UNCHANGED row

mch_1161 ==
    /\ pc = "mch_1161"
    /\ IF set.map = "NULL" THEN NullDeref /\ UNCHANGED set
       ELSE set' = [set EXCEPT !.model = "obj"] /\ Step("mch_1162", FALSE)
    /\ UNCHANGED row

mch_1162 ==
    /\ pc = "mch_1162"
    /\ \E r \in Returns({set.map}) :
         /\ set' = [set EXCEPT !.set = r]
         /\ IF r = "NULL" THEN Finish("NULL", TRUE) ELSE Step("mch_1166", FALSE)
    /\ UNCHANGED row

mch_1166 ==
    /\ pc = "mch_1166"
    /\ \E r \in Returns({set.set}) :
         /\ set' = [set EXCEPT !.affine_hull = r]
         /\ IF r = "NULL" THEN Finish("NULL", TRUE) ELSE Step("mch_1169", FALSE)
    /\ UNCHANGED row

mch_1169 ==
    /\ pc = "mch_1169"
    /\ \E n_eq \in 0..1 :
         IF n_eq # 0 THEN pc' = "mah_1120" /\ row' = [row EXCEPT !.via = "modulo_affine_hull"]
         ELSE pc' = "uch_1035" /\ row' = [row EXCEPT !.via = "isl_map_convex_hull"]
    /\ UNCHANGED <<set, out>>

mch_1176 ==
    /\ pc = "mch_1176"
    /\ \E r \in Returns({set.bset, set.model}) :
         set' = [set EXCEPT !.convex_hull = r] /\ Step("mch_1178", Fails({set.bset, set.model}, r))
    /\ UNCHANGED row

mch_1178 ==
    /\ pc = "mch_1178"
    /\ IF set.convex_hull = "NULL" THEN NullDeref ELSE Finish(set.convex_hull, FALSE)
    /\ UNCHANGED <<set, row>>

(* modulo_affine_hull *)

mah_1120 ==
    /\ pc = "mah_1120"
    /\ \E dummy \in Returns({set.affine_hull}) :
         IF dummy = "NULL" THEN set' = [set EXCEPT !.bset = "NULL"] /\ Step("mch_1176", TRUE)
         ELSE UNCHANGED set /\ Step("mah_1125", FALSE)
    /\ UNCHANGED row

mah_1125 ==
    /\ pc = "mah_1125"
    /\ \E r \in Returns({set.set}) :
         set' = [set EXCEPT !.set = r] /\ Step("uch_1035", Fails({set.set}, r))
    /\ UNCHANGED row

mah_1127 ==
    /\ pc = "mah_1127"
    /\ \E r \in Returns({set.convex_hull, set.affine_hull}) :
         /\ set' = [set EXCEPT !.bset = r]
         /\ Step("mch_1176", Fails({set.convex_hull, set.affine_hull}, r))
    /\ UNCHANGED row

(* uset_convex_hull and uset_convex_hull_wrap_with_bounds *)

uch_return(v, f) ==
    IF row.via = "modulo_affine_hull"
    THEN set' = [set EXCEPT !.convex_hull = v] /\ Step("mah_1127", f)
    ELSE set' = [set EXCEPT !.bset = v] /\ Step("mch_1176", f)

uch_1035 ==
    /\ pc = "uch_1035"
    /\ IF set.set = "NULL" THEN NullDeref
       ELSE \E dim \in 0..1 : Step(IF dim = 0 THEN "uch_1036" ELSE "uch_1038", FALSE)
    /\ UNCHANGED <<set, row>>

uch_1036 ==
    /\ pc = "uch_1036"
    /\ \E r \in Ptr : uch_return(r, r = "NULL")
    /\ UNCHANGED row

uch_1038 ==
    /\ pc = "uch_1038"
    /\ \E r \in Ptr :
         IF r = "NULL" THEN uch_return("NULL", TRUE)
         ELSE UNCHANGED set /\ Step("uch_1042", FALSE)
    /\ UNCHANGED row

uch_1042 ==
    /\ pc = "uch_1042"
    /\ \E r \in Ptr :
         IF r = "NULL" THEN uch_return("NULL", TRUE)
         ELSE UNCHANGED set /\ Step("uch_1045", FALSE)
    /\ UNCHANGED row

uch_1045 ==
    /\ pc = "uch_1045"
    /\ \E n \in 1..2, dim \in 1..2 :
         IF n = 1 THEN uch_return("obj", FALSE)
         ELSE UNCHANGED set /\ Step(IF dim = 1 THEN "uch_1051" ELSE "uch_1053", FALSE)
    /\ UNCHANGED row

uch_1051 ==
    /\ pc = "uch_1051"
    /\ \E r \in Ptr : uch_return(r, r = "NULL")
    /\ UNCHANGED row

uch_1053 ==
    /\ pc = "uch_1053"
    /\ \E bounded \in {-1, 0, 1} :
         /\ pc' = IF bounded = 0 THEN "uch_1054" ELSE "uch_1056"
         /\ out' = [out EXCEPT !.failed = @ \/ bounded < 0, !.blind = @ \/ bounded < 0]
    /\ UNCHANGED <<set, row>>

uch_1054 ==
    /\ pc = "uch_1054"
    /\ \E r \in Ptr : uch_return(r, r = "NULL")
    /\ UNCHANGED row

uch_1056 ==
    /\ pc = "uch_1056"
    /\ \E r \in Ptr :
         IF r = "NULL" THEN uch_return("NULL", TRUE)
         ELSE set' = [set EXCEPT !.bounds = r] /\ Step("wwb_985", FALSE)
    /\ UNCHANGED row

wwb_985 ==
    /\ pc = "wwb_985"
    /\ \E holds \in BOOLEAN :
         IF holds THEN UNCHANGED set /\ Step("wwb_986", FALSE)
         ELSE uch_return("NULL", TRUE)
    /\ UNCHANGED row

wwb_986 ==
    /\ pc = "wwb_986"
    /\ \E r \in Ptr :
         IF r = "NULL" THEN uch_return("NULL", TRUE)
         ELSE UNCHANGED set /\ Step("wwb_989", FALSE)
    /\ UNCHANGED row

wwb_989 ==
    /\ pc = "wwb_989"
    /\ \E r \in Ptr : uch_return(r, r = "NULL")
    /\ UNCHANGED row

(* isl_map_simple_hull *)

msh_1209 ==
    /\ pc = "msh_1209"
    /\ IF set.map = "NULL" THEN Finish("NULL", FALSE)
       ELSE \E n \in 0..2 :
                IF n = 0 THEN \E r \in Ptr : Finish(r, r = "NULL")
                ELSE IF n = 1 THEN Finish("obj", FALSE)
                ELSE Step("msh_1222", FALSE)
    /\ UNCHANGED <<set, row>>

msh_1222 ==
    /\ pc = "msh_1222"
    /\ \E r \in Returns({set.map}) :
         set' = [set EXCEPT !.map = r] /\ Step("msh_1223", Fails({set.map}, r))
    /\ UNCHANGED row

msh_1223 ==
    /\ pc = "msh_1223"
    /\ IF set.map = "NULL" THEN NullDeref /\ UNCHANGED set
       ELSE set' = [set EXCEPT !.model = "obj"] /\ Step("msh_1232", FALSE)
    /\ UNCHANGED row

msh_1232 ==
    /\ pc = "msh_1232"
    /\ \E r \in Returns({set.map}) :
         /\ set' = [set EXCEPT !.set = r]
         /\ IF r = "NULL" THEN Finish("NULL", TRUE) ELSE Step("msh_1236", FALSE)
    /\ UNCHANGED row

msh_1236 ==
    /\ pc = "msh_1236"
    /\ \E r \in Returns({set.set}) :
         /\ set' = [set EXCEPT !.bset = r]
         /\ IF r = "NULL" THEN Finish("NULL", TRUE) ELSE Step("msh_1239", FALSE)
    /\ UNCHANGED row

msh_1239 ==
    /\ pc = "msh_1239"
    /\ \E r \in Returns({set.bset}) :
         /\ set' = [set EXCEPT !.bset = r]
         /\ IF r = "NULL" THEN Finish("NULL", TRUE) ELSE Step("msh_1244", FALSE)
    /\ UNCHANGED row

msh_1244 ==
    /\ pc = "msh_1244"
    /\ \E k \in {-1, 0}, is_bound \in {-1, 0, 1} :
         IF k < 0 \/ is_bound < 0 THEN Finish("NULL", TRUE) ELSE Step("msh_1262", FALSE)
    /\ UNCHANGED <<set, row>>

msh_1262 ==
    /\ pc = "msh_1262"
    /\ \E r \in Returns({set.bset}) :
         set' = [set EXCEPT !.bset = r] /\ Step("msh_1264", Fails({set.bset}, r))
    /\ UNCHANGED row

msh_1264 ==
    /\ pc = "msh_1264"
    /\ set' = [set EXCEPT !.bmap = set.bset]
    /\ pc' = "bmch_88"
    /\ UNCHANGED <<row, out>>

msh_1266 ==
    /\ pc = "msh_1266"
    /\ \E r \in Returns({set.bset, set.model}) : Finish(r, Fails({set.bset, set.model}, r))
    /\ UNCHANGED <<set, row>>

NextErr ==
    \/ EnterBasicMapConvexHull \/ EnterMapConvexHull \/ EnterMapSimpleHull
    \/ bmch_88 \/ bmch_91 \/ bmch_92 \/ bmch_99 \/ bmch_102 \/ bmch_103
    \/ mch_1150 \/ mch_1155 \/ mch_1160 \/ mch_1161 \/ mch_1162 \/ mch_1166 \/ mch_1169
    \/ mch_1176 \/ mch_1178
    \/ mah_1120 \/ mah_1125 \/ mah_1127
    \/ uch_1035 \/ uch_1036 \/ uch_1038 \/ uch_1042 \/ uch_1045 \/ uch_1051 \/ uch_1053
    \/ uch_1054 \/ uch_1056
    \/ wwb_985 \/ wwb_986 \/ wwb_989
    \/ msh_1209 \/ msh_1222 \/ msh_1223 \/ msh_1232 \/ msh_1236 \/ msh_1239 \/ msh_1244
    \/ msh_1262 \/ msh_1264 \/ msh_1266

SpecErr == InitErr /\ [][NextErr]_vars

\* C10: when an internal step has failed (a library call returned NULL, the
\* boundedness check returned -1, an assertion did not hold) the public
\* operation returns NULL; no NULL pointer is read through, and no hull
\* strategy is entered after a failed boundedness check.
C10_ErrorPropagation ==
    /\ ~out.deref
    /\ ~out.blind
    /\ (pc = "done" /\ out.failed) => out.ret = "NULL"

----------------------------------------------------------------------------
(* Specification SpecElim: the loop of uset_convex_hull_elim on the         *)
(* normalized unbounded sets uset_convex_hull passes to it.  set holds the  *)
(* members not yet combined, row the set the function was called with,      *)
(* out.bset the local convex_hull and out.ret the number of calls of        *)
(* convex_hull_pair made so far.                                            *)

\* {x >= 0, y >= 0}, {y >= 0, x >= y}, {0 <= x <= 1, y >= 0}, {y = 1},
\* {y = 0, x >= 0}
Quadrant == Poly(2, <<>>, << <<0, 1, 0>>, <<0, 0, 1>> >>)
Wedge    == Poly(2, <<>>, << <<0, 0, 1>>, <<0, 1, -1>> >>)
UpStrip  == Poly(2, <<>>, << <<0, 1, 0>>, <<1, -1, 0>>, <<0, 0, 1>> >>)
LineY    == Poly(2, << <<-1, 0, 1>> >>, <<>>)
RayX     == Poly(2, << <<0, 0, 1>> >>, << <<0, 1, 0>> >>)

\* {x >= 0, 0 <= y <= 1, 0 <= z <= 1}
Beam3 == Poly(3, <<>>, << <<0, 1, 0, 0>>, <<0, 0, 1, 0>>, <<1, 0, -1, 0>>, <<0, 0, 0, 1>>,
                         <<1, 0, 0, -1>> >>)

Unbounded2 == {StripR, StripL, HalfPlane, Quadrant, Wedge, UpStrip, LineY, RayX}
Bounded2 == {UnitSq, Sq12, Tri1, Pt21, SegD}

ElimUnions ==
    {Union(2, <<x[1], x[2]>>) :
        x \in {x \in Unbounded2 \X (Unbounded2 \cup Bounded2) : x[1] # x[2]}} \cup
    {Union(2, <<b, a>>) : a \in Unbounded2, b \in Bounded2} \cup
    {Union(2, <<StripR, Pt00, Sq12>>), Union(2, <<StripR, StripL, UnitSq>>),
     Union(2, <<Pt21, RayX, LineY>>), Union(3, <<Beam3, Pt111>>)}

\* lines 1166-1173 and 1045-1054: the affine hull has no equality, more than
\* one member is left, the dimension is at least two and a member is
\* unbounded
ElimInputs ==
    {s \in {Normalized(u) : u \in ElimUnions} :
        /\ Len(s.p) >= 2 /\ s.dim >= 2
        /\ Len(Call("isl_set_affine_hull", <<s>>).eq) = 0
        /\ isl_set_is_bounded(s) = 0}

InitElim ==
    /\ pc = "start"
    /\ set \in ElimInputs
    /\ row = set
    /\ out = NoOut

\* isl_set_drop_basic_set(set, set->p[0]): the last member takes the place
\* of the first
DropFirst(s) ==
    [s EXCEPT !.p = IF Len(s.p) <= 1 THEN <<>>
                    ELSE <<s.p[Len(s.p)]>> \o SubSeq(s.p, 2, Len(s.p) - 1)]

\* lines 958-961
ElimCopy ==
    /\ pc = "start"
    /\ pc' = "loop"
    /\ out' = [op |-> "uset_convex_hull_elim", ret |-> 0, bset |-> set.p[1]]
    /\ set' = DropFirst(set)
    /\ UNCHANGED row

\* lines 962-971
ElimPair ==
    /\ pc = "loop"
    /\ Len(set.p) > 0
    /\ out' = [out EXCEPT !.ret = @ + 1,
                          !.bset = Call("convex_hull_pair", <<out.bset, set.p[1]>>)]
    /\ set' = DropFirst(set)
    /\ UNCHANGED <<pc, row>>

\* lines 962 and 972-973
ElimReturn ==
    /\ pc = "loop"
    /\ Len(set.p) = 0
    /\ pc' = "done"
    /\ UNCHANGED <<set, row, out>>

NextElim == ElimCopy \/ ElimPair \/ ElimReturn

SpecElim == InitElim /\ [][NextElim]_vars

\* the directions in which the hull is compared with the members
MaxDir == 2

Dirs(d) ==
    IF d = 2 THEN {<<a, b>> : a \in -MaxDir..MaxDir, b \in -MaxDir..MaxDir} \ {<<0, 0>>}
    ELSE {<<a, b, c>> : a \in -1..1, b \in -1..1, c \in -1..1} \ {<<0, 0, 0>>}

\* h is the minimum of a form over the polyhedron, lps are its minima over
\* the members: the minimum over the union is that over its closed convex hull
SupportAgrees(lps, h) ==
    IF \E l \in lps : l.res = "unbounded" THEN h.res = "unbounded"
    ELSE /\ h.res = "ok"
         /\ \E l \in lps : RatEq(<<l.num, l.den>>, <<h.num, h.den>>)
         /\ \A l \in lps : RatLe(<<h.num, h.den>>, <<l.num, l.den>>)

MemberMinima(s, b) ==
    {l \in {Call("isl_solve_lp", <<s.p[i], b>>) : i \in 1..Len(s.p)} : l.res # "empty"}

ClosedHullOf(h, s) ==
    /\ ~IsNull(h)
    /\ \A i \in 1..Len(s.p) : SubsetOf(s.p[i], h)
    /\ \A b \in Dirs(s.dim) : SupportAgrees(MemberMinima(s, b), Call("isl_solve_lp", <<h, b>>))

ElimOp == out.op = "uset_convex_hull_elim"

\* C11: on the unbounded path the members are combined one at a time by
\* convex_hull_pair: the calls made and the members left add up to n - 1 all
\* along, none is left at the end, and the result is what
\* uset_convex_hull_elim returns, the closed convex hull of S: it contains
\* S and has in every direction the minimum of S, none where a member is
\* unbounded.
C11_UnboundedPath ==
    /\ (pc = "loop" /\ ElimOp) => out.ret + Len(set.p) = Len(row.p) - 1
    /\ (pc = "done" /\ ElimOp) =>
          /\ Len(set.p) = 0
          /\ out.ret = Len(row.p) - 1
          /\ out.bset = Call("uset_convex_hull_elim", <<row>>)
          /\ ClosedHullOf(out.bset, row)

\* {x >= 0, 0 <= y <= 1} U {x <= 0, 0 <= y <= 1} gives {0 <= y <= 1}
C11_Witness ==
    /\ pc = "done" /\ ElimOp
    /\ Len(row.p) = 2
    /\ {row.p[1].ineq, row.p[2].ineq} = {StripR.ineq, StripL.ineq}
    /\ out.ret = 1
    /\ out.bset.eq = <<>>
    /\ SeqToSet(out.bset.ineq) = {<<0, 0, 1>>, <<1, 0, -1>>}

----------------------------------------------------------------------------
(* uset_is_bound applied to a row and a union *)

\* members whose vertices are not integer: {1 <= 2x <= 3, 1 <= 3y <= 2} and
\* {1 <= 2x, x <= 1, 0 <= y <= 1}
FracBox  == Poly(2, <<>>, << <<-1, 2, 0>>, <<3, -2, 0>>, <<-1, 0, 3>>, <<2, 0, -3>> >>)
HalfBox  == Poly(2, <<>>, << <<-1, 2, 0>>, <<1, -1, 0>>, <<0, 0, 1>>, <<1, 0, -1>> >>)

BoundMembers == {UnitSq, Sq12, Pt21, SegD, FracBox, HalfBox, StripR, HalfPlane, EmptyRay2, EmptyFlagged2}

\* the unions of one and two members, in both orders, and some of three
BoundSets ==
    {Union(2, <<a>>) : a \in BoundMembers} \cup
    {Union(2, <<x[1], x[2]>>) : x \in {x \in BoundMembers \X BoundMembers : x[1] # x[2]}} \cup
    {Union(2, <<FracBox, EmptyRay2, HalfBox>>), Union(2, <<HalfBox, UnitSq, FracBox>>),
     Union(2, <<EmptyFlagged2, StripR, FracBox>>)}

\* the constants the caller leaves in c[0]
BoundConsts == {-3, 0, 5}

NoBound == [ret |-> -1, set |-> NULL, c |-> <<>>]

InitBound ==
    /\ pc = "start"
    /\ set \in BoundSets
    /\ row \in {<<c0>> \o b : c0 \in BoundConsts, b \in Dirs(2)}
    /\ out = NoBound

\* lines 119-162
IsBound ==
    /\ pc = "start"
    /\ pc' = "done"
    /\ out' = Call("uset_is_bound", <<set, row>>)
    /\ UNCHANGED <<set, row>>

NextBound == IsBound

SpecBound == InitBound /\ [][NextBound]_vars

Reverse(s) == Tup([i \in 1..Len(s) |-> s[Len(s) + 1 - i]])

\* the largest factor a row is multiplied by
MaxScale == 6

\* c is k times the coefficients b, and its constant is minus the minimum of
\* k b.x over the members
ScaledMinimum(lps, b, c) ==
    \E k \in 1..MaxScale :
        /\ Coef(c) = isl_seq_scale(b, k)
        /\ \A l \in lps : RatLe(<<-c[1], 1>>, <<k * l.num, l.den>>)
        /\ \E l \in lps : RatEq(<<-c[1], 1>>, <<k * l.num, l.den>>)

SameBound(r1, r2) == r1.ret = r2.ret /\ (r1.ret = 1 => r1.c = r2.c)

BoundResult(s, c, lps, r) ==
    /\ r.ret = (IF \A l \in lps : l.res = "ok" THEN 1 ELSE 0)
    /\ r.ret = 1 =>
          /\ ScaledMinimum(lps, Coef(c), r.c)
          /\ \A i \in 1..Len(s.p) : Implied(s.p[i], r.c)
          /\ TightOn(s, r.c)
    /\ SameBound(r, Call("uset_is_bound", <<[s EXCEPT !.p = Reverse(s.p)], c>>))
    /\ \A c0 \in BoundConsts : SameBound(r, Call("uset_is_bound", <<s, [c EXCEPT ![1] = c0]>>))

\* C12: uset_is_bound returns 1 iff the form is bounded below on every
\* non-empty member; the row it leaves is then a positive multiple k of the
\* coefficients with constant minus the minimum of k b.x over the non-empty
\* members, valid on S and tight on a member, whatever the order of the
\* members and whatever constant the caller passed.
C12_BoundTest ==
    pc = "done" => BoundResult(set, row, MemberMinima(set, Coef(row)), out)
----------------------------------------------------------------------------
(* independent_bounds, one candidate row at a time *)

\* {x = 1, y = 1, x + y <= 1}
EmptyPt2b == Poly(2, << <<-1, 1, 0>>, <<-1, 0, 1>> >>, << <<1, -1, -1>> >>)

\* unions with a member that has no point and is not flagged EMPTY
EmptyMemberUnions ==
    {Union(2, <<UnitSq, EmptyPt2>>), Union(2, <<EmptyPt2, UnitSq>>), Union(2, <<EmptyBox2, Sq12>>),
     Union(2, <<EmptyBox2, EmptyPt2>>), Union(2, <<Tri1, EmptyEqs2>>), Union(2, <<EmptyPt2, EmptyPt2b>>),
     Union(2, <<Sq12, EmptyPt2b, Tri1>>)}

\* the set compute_facet passes to uset_convex_hull_wrap (lines 637-646) for
\* the first facet of s, normalized as at line 1088
SliceBy(s, U) ==
    Normalized(Call("isl_set_preimage", <<s, IF U = NoRow THEN NoRow ELSE isl_mat_drop_cols(U, 1, 1)>>))

FirstSlice(s, bounds) ==
    IF bounds = NoRow THEN NULL_set
    ELSE SliceBy(s, isl_mat_right_inverse(<<UnitRow(1 + s.dim, 1), bounds[1]>>))

FirstSliceOf(ib) == FirstSlice(ib.set, Call("initial_facet_constraint", <<ib.set, ib.dirs>>))

\* the unit square with the row 1 >= 0 in front: a member as
\* isl_set_normalize would not leave it
RawSq == Poly(2, <<>>, << <<1, 0, 0>>, <<0, 1, 0>>, <<1, -1, 0>>, <<0, 0, 1>>, <<1, 0, -1>> >>)

\* lines 1053-1056 and 1096-1098: independent_bounds is called on a
\* normalized, bounded set of at least two members in dimension at least two;
\* the last input is not normalized
IndepInputs ==
    {s \in ExtendInputs \cup {Normalized(u) : u \in EmptyMemberUnions} \cup
           {isl_set_set_rational(Union(2, <<RawSq, Sq12>>))} \cup
           {FirstSliceOf(Call("independent_bounds", <<s>>)) : s \in {s \in ExtendInputs : s.dim = 3}} :
        /\ s # NULL_set
        /\ Len(s.p) >= 2 /\ s.dim >= 2 /\ isl_set_is_bounded(s) = 1}

NoCand == [op |-> "independent_bounds", ret |-> 0, cand |-> NoRow, before |-> <<>>]

InitIndep ==
    /\ pc = "loop"
    /\ set \in IndepInputs
    /\ row = [dirs |-> <<>>, c0 |-> 0, i |-> 1, phase |-> "eq", j |-> 1, in |-> set]
    /\ out = NoCand

\* lines 199 and 232-237, 240-245: the candidate c has been tested
Tested(c, r) ==
    /\ set' = r.set
    /\ row' = [row EXCEPT !.dirs = r.dirs, !.c0 = r.c0, !.j = @ + 1]
    /\ out' = [out EXCEPT !.ret = r.ret, !.cand = c, !.before = row.dirs]
    /\ pc' = pc

Scanning == pc = "loop" /\ Len(row.dirs) < set.dim /\ row.i <= Len(set.p)

\* lines 231-238
IbEq ==
    /\ Scanning /\ row.phase = "eq" /\ row.j <= Len(set.p[row.i].eq)
    /\ Tested(set.p[row.i].eq[row.j],
              Call("is_independent_bound", <<set, set.p[row.i].eq[row.j], row.dirs, row.c0>>))

\* lines 239-246
IbIneq ==
    /\ Scanning /\ row.phase = "ineq" /\ row.j <= Len(set.p[row.i].ineq)
    /\ Tested(set.p[row.i].ineq[row.j],
              Call("is_independent_bound", <<set, set.p[row.i].ineq[row.j], row.dirs, row.c0>>))

\* line 231: the equalities of member i are exhausted
IbEndEq ==
    /\ Scanning /\ row.phase = "eq" /\ row.j > Len(set.p[row.i].eq)
    /\ row' = [row EXCEPT !.phase = "ineq", !.j = 1]
    /\ UNCHANGED <<pc, set, out>>

\* lines 227, 239: the inequalities of member i are exhausted
IbEndIneq ==
    /\ Scanning /\ row.phase = "ineq" /\ row.j > Len(set.p[row.i].ineq)
    /\ row' = [row EXCEPT !.i = @ + 1, !.phase = "eq", !.j = 1]
    /\ UNCHANGED <<pc, set, out>>

\* lines 227, 248-249
IbReturn ==
    /\ pc = "loop" /\ ~Scanning
    /\ pc' = "done"
    /\ UNCHANGED <<set, row, out>>

NextIndep == IbEq \/ IbIneq \/ IbEndEq \/ IbEndIneq \/ IbReturn

SpecIndep == InitIndep /\ [][NextIndep]_vars

IndepOp == out.op = "independent_bounds"

Minor2(a, b, i, j) == a[i] * b[j] - a[j] * b[i]

\* the coefficients c depend linearly on the rows of dirs (at most two rows,
\* at most three columns)
Dependent(dirs, c) ==
    IF Len(dirs) = 0 THEN IsZeroSeq(c)
    ELSE IF Len(dirs) = 1
         THEN \A i \in 1..Len(c) : \A j \in 1..Len(c) : Minor2(Coef(dirs[1]), c, i, j) = 0
    ELSE Det(<<Coef(dirs[1]), Coef(dirs[2]), c>>) = 0

Echelon(dirs) ==
    /\ \A k \in 1..Len(dirs) : isl_seq_first_non_zero(Coef(dirs[k])) >= 0
    /\ \A k \in 1..(Len(dirs) - 1) :
          isl_seq_first_non_zero(Coef(dirs[k])) < isl_seq_first_non_zero(Coef(dirs[k + 1]))

----------------------------------------------------------------------------
(* uset_convex_hull_wrap_with_bounds step by step: the loop of              *)
(* initial_facet_constraint, then the loops of extend, one call of          *)
(* wrap_facet or compute_facet at a time                                    *)

\* normalized bounded sets of at least two members in dimension at least two
FacetInputs ==
    {s \in ExtendInputs \cup {Normalized(u) : u \in EmptyMemberUnions} \cup
           {FirstSliceOf(Call("independent_bounds", <<s>>)) : s \in {s \in ExtendInputs : s.dim = 3}} :
        /\ s # NULL_set
        /\ Len(s.p) >= 2 /\ s.dim >= 2 /\ isl_set_is_bounded(s) = 1}

NoCall == [res |-> "none", ret |-> NoRow, facet |-> NoRow, ridge |-> NoRow, set |-> NULL_set]

\* bounds: the matrix of initial_facet_constraint; entered: its number of
\* rows on entry; hull, cap, i, facet, j: the rows of hull, its capacity
\* n_ineq and the loop variables of extend; F, R: the rows passed to the last
\* call of wrap_facet, S: the set passed to it; by: the caller of that call
NoLoop ==
    [bounds |-> NoRow, entered |-> -1, face |-> -1, hull |-> <<>>, cap |-> 0, i |-> 0,
     facet |-> NULL, j |-> 0, F |-> NoRow, R |-> NoRow, S |-> NULL_set, by |-> "none", batch |-> 0]

InitFacet ==
    /\ pc = "start"
    /\ set \in FacetInputs
    /\ row = NoLoop
    /\ out = [op |-> "wrap_with_bounds", call |-> NoCall, bset |-> NULL]

Failed ==
    /\ pc' = "fail"
    /\ out' = [out EXCEPT !.bset = NULL]

\* lines 1056-1058, 985 and 541-542
WwbEnter ==
    /\ pc = "start"
    /\ \E ib \in {Call("independent_bounds", <<set>>)} :
         /\ set' = ib.set
         /\ row' = [row EXCEPT !.bounds = ib.dirs, !.entered = Len(ib.dirs)]
         /\ IF Len(ib.dirs) # set.dim \/ Len(set.p) = 0
            THEN Failed
            ELSE pc' = "ifc" /\ out' = out

\* lines 544-572: the face of the slice; the loop is left if it has one
\* equality, otherwise the bounds are projected and their zero rows stripped
IfcSlice ==
    /\ pc = "ifc" /\ Len(row.bounds) > 1
    /\ \E face \in {Call("isl_set_affine_hull", <<isl_set_add_equality(set, row.bounds[1])>>)} :
         IF IsNull(face) THEN Failed /\ UNCHANGED <<set, row>>
         ELSE IF Len(face.eq) = 1
              THEN /\ pc' = "initial"
                   /\ row' = [row EXCEPT !.face = 1]
                   /\ UNCHANGED <<set, out>>
         ELSE \E b \in {ifc_strip(ifc_inverse(row.bounds,
                                              isl_mat_right_inverse(<<UnitRow(1 + set.dim, 1)>> \o face.eq),
                                              Len(face.eq), set.dim))} :
                  IF b = NoRow THEN Failed /\ row' = [row EXCEPT !.face = Len(face.eq)] /\ UNCHANGED set
                  ELSE /\ pc' = "ifc_wrap"
                       /\ row' = [row EXCEPT !.bounds = b, !.face = Len(face.eq)]
                       /\ UNCHANGED <<set, out>>

\* lines 573-577: row 0 is wrapped around the last row, which is dropped
IfcWrap ==
    /\ pc = "ifc_wrap"
    /\ \E w \in {wrap_call(set, row.bounds[1], row.bounds[Len(row.bounds)])} :
         /\ set' = w.set
         /\ IF w.ret = NoRow
            THEN /\ pc' = "fail"
                 /\ out' = [out EXCEPT !.call = w, !.bset = NULL]
                 /\ row' = [row EXCEPT !.F = row.bounds[1], !.R = row.bounds[Len(row.bounds)], !.S = set,
                                       !.by = "initial_facet_constraint"]
            ELSE /\ pc' = "ifc"
                 /\ out' = [out EXCEPT !.call = w]
                 /\ row' = [row EXCEPT !.F = row.bounds[1], !.R = row.bounds[Len(row.bounds)], !.S = set,
                                       !.by = "initial_facet_constraint",
                                       !.bounds = <<w.facet>> \o SubSeq(row.bounds, 2, Len(row.bounds) - 1)]

\* lines 544, 579: one row is left
IfcReturn ==
    /\ pc = "ifc" /\ Len(row.bounds) <= 1
    /\ pc' = "initial"
    /\ UNCHANGED <<set, row, out>>

RECURSIVE SumLen(_, _)
SumLen(ps, i) == IF i > Len(ps) THEN 0 ELSE Len(ps[i].eq) + Len(ps[i].ineq) + SumLen(ps, i + 1)

\* lines 679-694
ExtEnter ==
    /\ pc = "initial"
    /\ IF Len(set.p) = 0 \/ Len(row.bounds[1]) # 1 + set.dim
       THEN Failed /\ UNCHANGED row
       ELSE /\ pc' = "ext"
            /\ row' = [row EXCEPT !.hull = <<row.bounds[1]>>, !.cap = 1 + SumLen(set.p, 1), !.i = 1]
            /\ out' = out
    /\ UNCHANGED set

\* lines 695-703: the facet of hull row i; the capacity is raised if the
\* rows of the facet may not fit
ExtFacet ==
    /\ pc = "ext" /\ row.i <= Len(row.hull) /\ row.i <= MaxHullRows
    /\ \E f \in {Call("compute_facet", <<set, row.hull[row.i]>>)} :
         IF IsNull(f) THEN Failed /\ UNCHANGED row
         ELSE /\ pc' = "ridge"
              /\ row' = [row EXCEPT !.facet = f, !.j = 1, !.batch = Len(row.hull),
                                    !.cap = IF Len(f.ineq) + Len(row.hull) > @
                                            THEN Len(row.hull) + Len(f.ineq) ELSE @]
              /\ out' = out
    /\ UNCHANGED set

\* lines 704-717: hull row i is copied, wrapped around ridge j and kept if it
\* differs from every earlier row
ExtWrap ==
    /\ pc = "ridge" /\ row.j <= Len(row.facet.ineq)
    /\ \E w \in {wrap_call(set, row.hull[row.i], row.facet.ineq[row.j])} :
         /\ set' = w.set
         /\ IF w.ret = NoRow
            THEN /\ pc' = "fail"
                 /\ out' = [out EXCEPT !.call = w, !.bset = NULL]
                 /\ row' = [row EXCEPT !.F = row.hull[row.i], !.R = row.facet.ineq[row.j], !.S = set, !.by = "extend"]
            ELSE /\ pc' = "ridge"
                 /\ out' = [out EXCEPT !.call = w]
                 /\ row' = [row EXCEPT !.F = row.hull[row.i], !.R = row.facet.ineq[row.j], !.S = set, !.by = "extend",
                                       !.hull = extend_add(@, w.facet), !.j = @ + 1]

\* lines 704, 718, 695
ExtNext ==
    /\ pc = "ridge" /\ row.j > Len(row.facet.ineq)
    /\ pc' = "ext"
    /\ row' = [row EXCEPT !.i = @ + 1]
    /\ UNCHANGED <<set, out>>

\* lines 695, 720-722
ExtReturn ==
    /\ pc = "ext" /\ (row.i > Len(row.hull) \/ row.i > MaxHullRows)
    /\ pc' = "done"
    /\ out' = [out EXCEPT !.bset = extend_finish(set, row.hull)]
    /\ UNCHANGED <<set, row>>

NextFacet ==
    \/ WwbEnter \/ IfcSlice \/ IfcWrap \/ IfcReturn
    \/ ExtEnter \/ ExtFacet \/ ExtWrap \/ ExtNext \/ ExtReturn

SpecFacet == InitFacet /\ [][NextFacet]_vars

FacetOp == out.op = "wrap_with_bounds"

Wrapped == FacetOp /\ out.call.res # "none"

\* the largest multiplier in a combination of the facet and the ridge
MaxWrap == 18

\* N = -n F + d R with d > 0
WrapCombination(F, R, N) ==
    \E n \in -MaxWrap..MaxWrap : \E d \in 1..MaxWrap : N = isl_seq_combine(-n, F, d, R)

ZeroOnRidge(F, R, N, d) ==
    \A p \in Grid(d) : (Eval(F, p) = 0 /\ Eval(R, p) = 0) => Eval(N, p) = 0

\* N vanishes at a point of S off the hyperplane of F
TouchesOff(s, F, N) == \E p \in PointsOf(s) : Eval(F, p) > 0 /\ Eval(N, p) = 0

\* C14: when the LP of wrap_facet has a minimum n/d, the facet row becomes
\* -n F + d R with d > 0; this row is non-negative on every member of S and
\* vanishes where F and R both vanish.
C14_WrapOk ==
    (Wrapped /\ out.call.res = "ok") =>
        /\ out.call.ret = out.call.facet
        /\ WrapCombination(row.F, row.R, out.call.facet)
        /\ \A i \in 1..Len(set.p) : Implied(set.p[i], out.call.facet)
        /\ ZeroOnRidge(row.F, row.R, out.call.facet, set.dim)

\* on {2 <= x <= 3, 0 <= y <= 1} U {(0, 3)} the row 9x + 6y >= 18 wrapped
\* around 2 - x >= 0 gives 6y >= 0, with n/d = -1/9
C14_Witness ==
    /\ Wrapped /\ out.call.res = "ok" /\ row.by = "extend"
    /\ row.F = <<-18, 9, 6>> /\ row.R = <<2, -1, 0>>
    /\ out.call.facet = <<0, 0, 6>>
    /\ out.call.ret = <<0, 0, 6>>

----------------------------------------------------------------------------
(* The rows of hull during the loops of extend *)

Extending == FacetOp /\ pc \in {"ext", "ridge", "done"}

SameHalfspace(a, b) == isl_seq_normalize(a) = isl_seq_normalize(b)

\* C16: hull never holds two equal rows, nor two rows that are positive
\* multiples of each other; the rows are visited once each in the order of
\* their index; hull never has more rows than the convex hull has facets, nor
\* more than its capacity, which holds the rows of a facet before they are
\* wrapped.
C16_ExtendRows ==
    Extending =>
        /\ \A a \in 1..Len(row.hull) : \A b \in 1..Len(row.hull) :
              a # b => (row.hull[a] # row.hull[b] /\ ~SameHalfspace(row.hull[a], row.hull[b]))
        /\ row.i >= 1 /\ row.i <= Len(row.hull) + 1
        /\ pc = "done" => row.i = Len(row.hull) + 1
        /\ Len(row.hull) <= Cardinality(FacetsOfConv(set))
        /\ Len(row.hull) <= row.cap
        /\ pc = "ridge" => row.batch + Len(row.facet.ineq) <= row.cap
----------------------------------------------------------------------------
(* uset_convex_hull: the choice of the strategy *)

\* the sets isl_map_convex_hull (line 1173) and modulo_affine_hull
\* (lines 1125-1126) pass to uset_convex_hull
PassedOn(u, ah) ==
    IF IsNull(ah) THEN NULL_set
    ELSE IF Len(ah.eq) = 0 THEN u
    ELSE Call("isl_set_preimage", <<u, isl_basic_set_remove_equalities(ah).T>>)

DispatchUnions == HullUnions \cup BoundedUnions \cup ElimUnions \cup EmptyMemberUnions

DispatchInputs ==
    {s \in {PassedOn(u, Call("isl_set_affine_hull", <<u>>)) : u \in {u \in DispatchUnions : Len(u.p) > 0}} :
        s # NULL_set}

\* norm: the set after line 1042
NoChoice == [op |-> "uset_convex_hull", strategy |-> "none", norm |-> NULL_set, bounds |-> NoRow, bset |-> NULL]

InitDispatch ==
    /\ pc = "start"
    /\ set \in DispatchInputs
    /\ row = set
    /\ out = NoChoice

Chosen(c, b) ==
    /\ pc' = "done"
    /\ out' = [out EXCEPT !.strategy = c, !.bset = b]
    /\ UNCHANGED <<set, row>>

\* lines 1035-1036
UchZero ==
    /\ pc = "start" /\ set.dim = 0
    /\ Chosen("0d", Call("convex_hull_0d", <<set>>))

\* lines 1038-1044
UchNormalize ==
    /\ pc = "start" /\ set.dim # 0
    /\ set' = Call("isl_set_normalize", <<isl_set_set_rational(set)>>)
    /\ pc' = IF set' = NULL_set THEN "fail" ELSE "normalized"
    /\ out' = [out EXCEPT !.norm = set']
    /\ UNCHANGED row

\* lines 1045-1049
UchSingle ==
    /\ pc = "normalized" /\ uch_case(set) = "single"
    /\ Chosen("single", uch_chosen(set, "single"))

\* lines 1050-1051
UchLine ==
    /\ pc = "normalized" /\ uch_case(set) = "1d"
    /\ Chosen("1d", uch_chosen(set, "1d"))

\* lines 1053-1054
UchElim ==
    /\ pc = "normalized" /\ uch_case(set) = "elim"
    /\ Chosen("elim", uch_chosen(set, "elim"))

\* lines 1056-1058
UchBounds ==
    /\ pc = "normalized" /\ uch_case(set) = "wrap"
    /\ \E ib \in {Call("independent_bounds", <<set>>)} :
         /\ set' = ib.set
         /\ out' = [out EXCEPT !.strategy = "wrap", !.bounds = ib.dirs]
    /\ pc' = "wrap"
    /\ UNCHANGED row

\* line 1059
UchWrap ==
    /\ pc = "wrap"
    /\ Chosen("wrap", Call("uset_convex_hull_wrap_with_bounds", <<set, out.bounds>>))

NextDispatch == UchZero \/ UchNormalize \/ UchSingle \/ UchLine \/ UchElim \/ UchBounds \/ UchWrap

SpecDispatch == InitDispatch /\ [][NextDispatch]_vars

DispatchOp == out.op = "uset_convex_hull"

\* v is a direction of the recession cone of b
Recedes(b, v) ==
    /\ \A i \in 1..Len(b.eq) : DotFrom(Coef(b.eq[i]), v, 1) = 0
    /\ \A i \in 1..Len(b.ineq) : DotFrom(Coef(b.ineq[i]), v, 1) >= 0

RecessionDirs(d) ==
    IF d = 1 THEN {<<-1>>, <<1>>}
    ELSE Dirs(d)

\* the recession cone of b holds a direction other than 0
UnboundedMember(b) == \E v \in RecessionDirs(b.dim) : Recedes(b, v)

\* the first case that matches, for the set s0 passed in and its normalized
\* form s
FirstCase(s0, s) ==
    IF s0.dim = 0 THEN "0d"
    ELSE IF Len(s.p) = 1 THEN "single"
    ELSE IF s.dim = 1 THEN "1d"
    ELSE IF \E i \in 1..Len(s.p) : UnboundedMember(s.p[i]) THEN "elim"
    ELSE "wrap"

HasPoint0d(s) == \E i \in 1..Len(s.p) : ~ISL_F_ISSET(s.p[i], "EMPTY") /\ InMember(s.p[i], <<>>)

----------------------------------------------------------------------------
(* The loop of initial_facet_constraint *)

InLoop == FacetOp /\ pc \in {"ifc", "ifc_wrap", "initial"}

\* row 0 of bounds is non-negative on S and is one of the facets of conv(S)
IsFacetOf(r, s) ==
    /\ \A i \in 1..Len(s.p) : Implied(s.p[i], r)
    /\ isl_seq_normalize(r) \in FacetsOfConv(s)

InitialFacetState ==
    FacetOp =>
        /\ row.entered >= 0 => ((row.entered = set.dim) <=> (pc # "fail" \/ row.face >= 0))
        /\ InLoop => (Len(row.bounds) >= 1 /\ Len(row.bounds) <= row.entered)
        /\ pc = "ifc_wrap" => (Len(row.bounds) >= 2 /\ ~IsZeroSeq(row.bounds[Len(row.bounds)]))
        /\ row.by = "initial_facet_constraint" => ~IsZeroSeq(row.R)
        /\ pc = "initial" => (Len(row.bounds) = 1 \/ row.face = 1)
        /\ pc = "initial" => IsFacetOf(row.bounds[1], set)

\* an iteration that does not leave the loop removes a row: the projection
\* removes none or some, the call of wrap_facet is made on row 0 and the last
\* row and removes that one
InitialFacetStep ==
    /\ (pc = "ifc" /\ pc' = "ifc_wrap") => Len(row'.bounds) <= Len(row.bounds)
    /\ (pc = "ifc_wrap" /\ pc' = "ifc") =>
          /\ Len(row'.bounds) = Len(row.bounds) - 1
          /\ row'.F = row.bounds[1] /\ row'.R = row.bounds[Len(row.bounds)]
          /\ row'.bounds[1] = out'.call.facet

====
